---------------------------- MODULE Spec2Model ----------------------------
(***************************************************************************)
(* Model of the CTF trace reader core of babeltrace (formats/ctf/ctf.c):    *)
(* timestamp reconstruction, the packet indexer, packet seek, the event     *)
(* reader, the packet-framed metadata reader and the open/close resource    *)
(* discipline.                                                              *)
(*                                                                          *)
(* Every specification below shares one set of variables; a specification   *)
(* that does not exercise a part of the program leaves the variables of     *)
(* that part at their initial value.                                        *)
(*                                                                          *)
(* uint64_t quantities (timestamps) are modelled as naturals modulo         *)
(* 2^TS_BITS: TS_BITS stands for the 64 of the source, scaled down so that  *)
(* every value and every wrap-around can be enumerated.                     *)
(***************************************************************************)
EXTENDS Integers, Sequences, FiniteSets, TLC

VARIABLES
    pc,            \* control position of the modelled caller / open sequence
    decl,          \* declarations produced by the metadata parser for the stream
    td,            \* struct ctf_trace: uuid, byte_order, collection, dir, dirfd
    pos,           \* struct ctf_stream_pos of the file stream
    packet_index,  \* pos->packet_index: sequence of struct packet_index
    stream,        \* file_stream->parent (struct ctf_stream)
    warnings,      \* "[warning] Tracer discarded ..." lines written to stderr
    file,          \* content of the stream file being indexed / read
    meta,          \* state of the packet-framed metadata reader
    res,           \* operating-system resources: descriptors and mappings
    call,          \* the last operation performed, with its inputs and result
    clock          \* the tracer's true clock when the last event was recorded

vars == <<pc, decl, td, pos, packet_index, stream, warnings, file, meta, res,
          call, clock>>

---------------------------------------------------------------------------
(* Bounds and program constants *)

\* width of the modelled uint64_t (64 in the source)
TS_BITS == 4

\* EOF as stored in pos->offset
EOF == -1

\* CHAR_BIT
CHAR_BIT == 8

RECURSIVE Pow2(_)
Pow2(n) == IF n = 0 THEN 1 ELSE 2 * Pow2(n - 1)

\* number of values of the modelled uint64_t
WORD == Pow2(TS_BITS)

---------------------------------------------------------------------------
(* Initial values of the parts of the state *)

\* g_new0(struct ctf_file_stream): every field of the stream is zero
stream0 ==
    [timestamp |-> 0, prev_timestamp |-> 0, prev_timestamp_end |-> 0,
     events_discarded |-> 0, event_id |-> 0, has_timestamp |-> FALSE,
     consumed |-> FALSE, stream_id |-> 0, stream_class |-> FALSE]

\* values of pos->base other than a live mapping [map |-> "mapped", off, len]
NULL == [map |-> "NULL", off |-> 0, len |-> 0]
MAP_FAILED == [map |-> "MAP_FAILED", off |-> 0, len |-> 0]

\* ctf_init_pos(pos, fd, O_RDONLY)
pos0 ==
    [mmap_offset |-> 0, packet_size |-> 0, content_size |-> 0,
     base |-> NULL, offset |-> 0, last_offset |-> 0, cur_index |-> 0]

\* g_new0(struct ctf_trace): no uuid, no byte order, no stream class, no
\* collection; file_streams: the file streams added to the stream classes'
\* lists of streams, each the record [fd, base, packet_size]
td0 == [uuid |-> 0, uuid_set |-> FALSE, collection |-> FALSE,
        streams_len |-> 0, streams |-> {}, byte_order |-> "unset",
        file_streams |-> <<>>]

\* no declaration at all; ts_len = 0: the event header has no timestamp field
\* packet_header / packet_context: the trace packet header and the stream
\* packet context, their recognised fields and their size in bits;
\* event_header: the stream event header, its size, how it carries the event
\* id (eh_id: "none", "int" or "enum"; eh_v: a variant v; v_id: an id inside
\* v) and the timestamp (eh_ts: "none", "top" or "v"; ts_len bits);
\* sec_bits: the stream event context (0: none); events_len and events: the
\* stream class's events_by_id table and the ids that have an event class
decl0 == [ts_len |-> 0, packet_header |-> FALSE, header_fields |-> {},
          header_bits |-> 0, packet_context |-> FALSE, context_fields |-> {},
          context_bits |-> 0,
          event_header |-> FALSE, eh_bits |-> 0, eh_id |-> "none",
          eh_v |-> FALSE, v_id |-> FALSE, eh_ts |-> "none",
          sec_bits |-> 0, events_len |-> 0, events |-> {}]

\* the stream file: st_size in bytes, and the indexer's progress over it:
\* its local first_packet, and the header last decoded with its offset
file0 == [size |-> 0, first_packet |-> TRUE, at |-> -1,
          hdr |-> [rw |-> "ok", magic |-> 0, uuid |-> 0, stream_id |-> 0,
                   content_size |-> 0, packet_size |-> 0,
                   timestamp_begin |-> 0, timestamp_end |-> 0,
                   events_discarded |-> 0]]

\* the trace directory: the metadata file (magic: its first 4 bytes, or
\* fewer when it is shorter; packets: its packets; plain: its text
\* when it is not packet-framed), the entries readdir_r has yet to return,
\* and what the metadata reader did: handed tells whether a text was given
\* to the scanner, and text is that text; metadata_fp tells whether the
\* caller of ctf_open_trace gave a FILE * of its own for the metadata
meta0 == [magic |-> <<>>, packets |-> <<>>, plain |-> <<>>,
          dirents |-> <<>>, handed |-> FALSE, text |-> <<>>,
          metadata_fp |-> FALSE]

\* a descriptor or handle of the process
Fd(name, k) == <<name, k>>

\* the open descriptors and directory handles, the number of live mappings,
\* and the descriptors that close() was called on while they were not open
res0 == [fds |-> {}, maps |-> 0, ebadf |-> {}]

call0 == [op |-> "none"]

---------------------------------------------------------------------------
(* ctf_update_timestamp *)

\* mutant: the wrap test also fires when the low bits are equal
ctf_update_timestamp_le(s, len, value) ==
    IF len = TS_BITS
    THEN [s EXCEPT !.timestamp = value]
    ELSE LET oldval == s.timestamp % Pow2(len)
             newval == IF value <= oldval
                       THEN (value + Pow2(len)) % WORD ELSE value
             updateval == ((s.timestamp - (s.timestamp % Pow2(len))) + newval) % WORD
         IN [s EXCEPT !.prev_timestamp = s.timestamp,
                      !.timestamp = updateval]

\* mutant: the wrap of the low bits is not detected
ctf_update_timestamp_nowrap(s, len, value) ==
    IF len = TS_BITS
    THEN [s EXCEPT !.timestamp = value]
    ELSE LET updateval == ((s.timestamp - (s.timestamp % Pow2(len))) + value) % WORD
         IN [s EXCEPT !.prev_timestamp = s.timestamp,
                      !.timestamp = updateval]

\* s: the stream; len: integer_declaration->len; value: the field read.
\* All arithmetic is uint64_t arithmetic, i.e. modulo WORD.
ctf_update_timestamp(s, len, value) ==
    IF len = TS_BITS
    THEN [s EXCEPT !.timestamp = value]
    ELSE LET \* oldval = stream->timestamp & ((1ULL << len) - 1)
             oldval == s.timestamp % Pow2(len)
             \* if (newval < oldval) newval += 1ULL << len
             newval == IF value < oldval
                       THEN (value + Pow2(len)) % WORD ELSE value
             \* updateval = (stream->timestamp & ~mask) + newval
             updateval == ((s.timestamp - (s.timestamp % Pow2(len))) + newval) % WORD
         IN [s EXCEPT !.prev_timestamp = s.timestamp,
                      !.timestamp = updateval]

---------------------------------------------------------------------------
(* Specification SpecTs: a stream positioned on a packet, whose events carry *)
(* a timestamp field of decl.ts_len bits.  The tracer stamps each event with *)
(* the low ts_len bits of its clock.                                         *)

\* largest value the true clock takes in the model
ClockMax == WORD + WORD \div 2

InitTs ==
    /\ pc = "reading"
    /\ decl \in {[decl0 EXCEPT !.ts_len = l, !.event_header = TRUE,
                                !.eh_ts = "top"] : l \in 1..TS_BITS}
    /\ td = td0
    /\ pos = pos0
    /\ packet_index = <<>>
    \* the seek onto the packet set the timestamp to its timestamp_begin
    /\ \E t \in 0..(WORD - 1) :
          /\ stream = [stream0 EXCEPT !.timestamp = t]
          /\ clock = t
    /\ warnings = <<>>
    /\ file = file0
    /\ meta = meta0
    /\ res = res0
    /\ call = call0

\* One event is recorded gap ticks after the previous one and read back:
\* the timestamp part of ctf_read_event.
ReadTimestamp(gap) ==
    /\ pc = "reading"
    /\ clock + gap <= ClockMax
    /\ LET f == (clock + gap) % Pow2(decl.ts_len)
       IN /\ stream' = [ctf_update_timestamp(stream, decl.ts_len, f)
                          EXCEPT !.has_timestamp = TRUE]
          /\ call' = [op |-> "ctf_update_timestamp", len |-> decl.ts_len,
                      f |-> f, gap |-> gap, old |-> stream.timestamp]
    /\ clock' = clock + gap
    /\ UNCHANGED <<pc, decl, td, pos, packet_index, warnings, file, meta, res>>

NextTs == \E gap \in 0..(WORD - 1) : ReadTimestamp(gap)

SpecTs == InitTs /\ [][NextTs]_vars

---------------------------------------------------------------------------
(* Claims about ctf_update_timestamp (checked under SpecTs) *)

\* the value (old with its low len bits cleared) + f, plus 2^len when f is
\* below old's low len bits, computed in unbounded integers
Reconstructed(old, len, f) ==
    (old - (old % Pow2(len))) + f + (IF f < old % Pow2(len) THEN Pow2(len) ELSE 0)

UpdateDone == call.op = "ctf_update_timestamp"

\* C1 as stated: for a field of L < 64 bits the new timestamp is
\* (old with low L bits cleared) + f (+ 2^L on a wrap), which is the smallest
\* value >= old whose low L bits are f, and prev_timestamp is the old
\* timestamp; for L = 64 the timestamp is exactly f.
C1_AsStated ==
    UpdateDone =>
        IF call.len < TS_BITS
        THEN /\ stream.timestamp = Reconstructed(call.old, call.len, call.f)
             /\ stream.timestamp >= call.old
             /\ stream.timestamp - call.old < Pow2(call.len)
             /\ stream.timestamp % Pow2(call.len) = call.f
             /\ stream.prev_timestamp = call.old
        ELSE stream.timestamp = call.f

\* C1 (amended): for a field of L < 64 bits the new timestamp is
\* (old with low L bits cleared) + f (+ 2^L on a wrap) reduced modulo 2^64,
\* its low L bits are f and prev_timestamp is the old timestamp; it is the
\* smallest value >= old with low L bits f whenever that value is below 2^64;
\* for L = 64 the timestamp is exactly f.
C1_UpdateTimestamp ==
    UpdateDone =>
        IF call.len < TS_BITS
        THEN LET r == Reconstructed(call.old, call.len, call.f)
             IN /\ stream.timestamp = r % WORD
                /\ stream.timestamp % Pow2(call.len) = call.f
                /\ stream.prev_timestamp = call.old
                /\ r < WORD => /\ stream.timestamp >= call.old
                               /\ stream.timestamp - call.old < Pow2(call.len)
        ELSE stream.timestamp = call.f

\* C1 witness: a field narrower than the word wrapped (f below the old low
\* bits) and the timestamp moved to the next multiple of 2^L plus f.
C1_Witness ==
    /\ UpdateDone
    /\ call.len < TS_BITS
    /\ call.f < call.old % Pow2(call.len)
    /\ stream.timestamp = (call.old - (call.old % Pow2(call.len))) + Pow2(call.len) + call.f
    /\ stream.timestamp > call.old
    /\ stream.prev_timestamp = call.old

\* C3 as stated: with an L < 64 bit field and every clock gap at most
\* 2^L - 1, each timestamp is >= the previous one and its low L bits are the
\* field just read.
C3_AsStated ==
    (UpdateDone /\ call.len < TS_BITS /\ call.gap <= Pow2(call.len) - 1) =>
        /\ stream.timestamp >= call.old
        /\ stream.timestamp % Pow2(call.len) = call.f

\* C3 (amended): with an L < 64 bit field and every clock gap at most
\* 2^L - 1, each timestamp's low L bits are the field just read, and each
\* timestamp is >= the previous one as long as the reconstructed value stays
\* below 2^64 (otherwise the 64-bit sum wraps around).
C3_MonotonicReconstruction ==
    (UpdateDone /\ call.len < TS_BITS /\ call.gap <= Pow2(call.len) - 1) =>
        /\ stream.timestamp % Pow2(call.len) = call.f
        /\ Reconstructed(call.old, call.len, call.f) < WORD
              => stream.timestamp >= call.old

\* C3 witness: the clock advanced by a gap within the bound, the L-bit field
\* wrapped, and the reconstructed timestamp still advanced by exactly the gap.
C3_Witness ==
    /\ UpdateDone
    /\ call.len < TS_BITS
    /\ call.gap > 0
    /\ call.gap <= Pow2(call.len) - 1
    /\ call.f < call.old % Pow2(call.len)
    /\ stream.timestamp = call.old + call.gap
    /\ stream.timestamp = clock

---------------------------------------------------------------------------
(* Memory mappings *)

\* getpagesize(), in bytes (scaled)
PAGE_SIZE == 2

\* MAX_PACKET_HEADER_LEN: one page, in bits
MAX_PACKET_HEADER_LEN == PAGE_SIZE * CHAR_BIT


\* mmap(NULL, len, prot, flags, fd, off): EINVAL for a zero length or an
\* offset that is not a multiple of the page size; else a new mapping
mmap(len, off) ==
    IF len = 0 \/ off % PAGE_SIZE # 0
    THEN MAP_FAILED
    ELSE [map |-> "mapped", off |-> off, len |-> len]

\* munmap(base, len) returns 0
munmap_ok(base, len) == base # MAP_FAILED /\ len > 0

\* number of live mappings after a call of mmap that returned base
Mapped(maps, base) == IF base = MAP_FAILED THEN maps ELSE maps + 1

---------------------------------------------------------------------------
(* ctf_packet_seek, read mode.  A file stream value fs is the record        *)
(* [pos, idx, stream, warnings, maps, collection, fault]: the cursor, its   *)
(* packet index, the stream, stderr, the live mappings, whether the trace   *)
(* is attached to a collection, and how the process died, if it did         *)
(* ("assert": a failed assertion, "segv": an access through MAP_FAILED,     *)
(* "oob": an access past the end of the packet index).                      *)

SEEK_SET == "SEEK_SET"
SEEK_CUR == "SEEK_CUR"

\* width of the modelled uint32_t events_discarded_diff (32 in the source)
DISC_BITS == 3

UINT32 == Pow2(DISC_BITS)

\* mutant: the old base is forgotten without munmap
seek_unmap_leak(fs) == [fs EXCEPT !.pos.base = NULL]

\* ctf_packet_seek, "unmap old base"
seek_unmap(fs) ==
    IF fs.pos.base = NULL
    THEN fs
    ELSE IF munmap_ok(fs.pos.base, fs.pos.packet_size \div CHAR_BIT)
         THEN [fs EXCEPT !.pos.base = NULL, !.maps = @ - 1]
         ELSE [fs EXCEPT !.fault = "assert"]

\* mutant: the running counter of the packet left is reported as it is
seek_cur_account_nodiff(fs) ==
    IF fs.pos.cur_index >= Len(fs.idx)
    THEN [fs EXCEPT !.fault = "oob"]
    ELSE LET cur == fs.idx[fs.pos.cur_index + 1]
         IN [fs EXCEPT !.stream.prev_timestamp_end = cur.timestamp_end,
                       !.stream.events_discarded = cur.events_discarded % UINT32,
                       !.stream.prev_timestamp = fs.stream.timestamp,
                       !.pos.cur_index = @ + 1]

\* mutant: the difference is stored through the pointer into the index
seek_cur_account_store(fs) ==
    IF fs.pos.cur_index >= Len(fs.idx)
    THEN [fs EXCEPT !.fault = "oob"]
    ELSE LET cur == fs.idx[fs.pos.cur_index + 1]
             prev == IF fs.pos.cur_index > 0
                     THEN fs.idx[fs.pos.cur_index].events_discarded
                     ELSE 0
             events_discarded_diff ==
                 ((cur.events_discarded % UINT32) + UINT32 - (prev % UINT32)) % UINT32
         IN [fs EXCEPT !.stream.prev_timestamp_end = cur.timestamp_end,
                       !.stream.events_discarded = events_discarded_diff,
                       !.idx[fs.pos.cur_index + 1].events_discarded =
                           events_discarded_diff,
                       !.stream.prev_timestamp = fs.stream.timestamp,
                       !.pos.cur_index = @ + 1]

\* case SEEK_CUR, for a cursor that is not at EOF
seek_cur_account(fs) ==
    IF fs.pos.cur_index >= Len(fs.idx)
    THEN [fs EXCEPT !.fault = "oob"]
    ELSE LET cur == fs.idx[fs.pos.cur_index + 1]
             prev == IF fs.pos.cur_index > 0
                     THEN fs.idx[fs.pos.cur_index].events_discarded
                     ELSE 0
             events_discarded_diff ==
                 ((cur.events_discarded % UINT32) + UINT32 - (prev % UINT32)) % UINT32
         IN [fs EXCEPT !.stream.prev_timestamp_end = cur.timestamp_end,
                       !.stream.events_discarded = events_discarded_diff,
                       !.stream.prev_timestamp = fs.stream.timestamp,
                       !.pos.cur_index = @ + 1]

\* mutant: SEEK_SET keeps the timestamps of the packet left before
seek_set_keep(fs, index) ==
    [fs EXCEPT !.pos.cur_index = index]

\* case SEEK_SET
seek_set(fs, index) ==
    [fs EXCEPT !.pos.cur_index = index,
               !.stream.prev_timestamp = 0,
               !.stream.prev_timestamp_end = 0]

\* fprintf("%d", v) of a uint32_t v: the value is read as a signed int
fprintf_d(v) == IF v >= UINT32 \div 2 THEN v - UINT32 ELSE v

\* mutant: the end of the index is reached and the offset is left as it is
seek_end_of_stream_noeof(fs) ==
    [fs EXCEPT !.stream.events_discarded = 0]

\* if (pos->cur_index >= pos->packet_index->len) { ... pos->offset = EOF; }
seek_end_of_stream(fs) ==
    LET warned ==
            IF fs.stream.events_discarded # 0 /\ fs.collection
            THEN Append(fs.warnings,
                        [events |-> fprintf_d(fs.stream.events_discarded),
                         from |-> fs.stream.prev_timestamp,
                         to |-> fs.stream.prev_timestamp_end])
            ELSE fs.warnings
    IN [fs EXCEPT !.warnings = warned,
                  !.stream.events_discarded = 0,
                  !.pos.offset = EOF]

\* mutant: the mapping starts at the beginning of the file
seek_map_start(fs) ==
    LET base == mmap(fs.pos.packet_size \div CHAR_BIT, 0)
        entry == fs.idx[fs.pos.cur_index + 1]
    IN IF base = MAP_FAILED
       THEN [fs EXCEPT !.pos.base = base, !.fault = "assert"]
       ELSE [fs EXCEPT !.pos.base = base,
                       !.maps = @ + 1,
                       !.pos.offset = entry.data_offset]

\* map new base, then replay trace_packet_header and stream_packet_context
seek_map(fs) ==
    LET base == mmap(fs.pos.packet_size \div CHAR_BIT, fs.pos.mmap_offset)
        entry == fs.idx[fs.pos.cur_index + 1]
    IN IF base = MAP_FAILED
       THEN [fs EXCEPT !.pos.base = base, !.fault = "assert"]
       ELSE [fs EXCEPT !.pos.base = base,
                       !.maps = @ + 1,
                       \* generic_rw over the same header bits as at indexing
                       !.pos.offset = entry.data_offset]

\* mutant: the empty-packet test is dropped, the cursor stays on the packet
seek_position_noskip(fs) ==
    LET entry == fs.idx[fs.pos.cur_index + 1]
        at == [fs EXCEPT !.pos.mmap_offset = entry.offset,
                         !.stream.timestamp = entry.timestamp_begin,
                         !.pos.content_size = entry.content_size,
                         !.pos.packet_size = entry.packet_size]
    IN IF entry.data_offset <= entry.content_size
       THEN [next |-> "map", fs |-> [at EXCEPT !.pos.offset = 0]]
       ELSE [next |-> "return", fs |-> [at EXCEPT !.pos.offset = EOF]]

\* mutant: a packet whose headers end after its content is mapped too
seek_position_noeof(fs) ==
    LET entry == fs.idx[fs.pos.cur_index + 1]
        at == [fs EXCEPT !.pos.mmap_offset = entry.offset,
                         !.stream.timestamp = entry.timestamp_begin,
                         !.pos.content_size = entry.content_size,
                         !.pos.packet_size = entry.packet_size]
    IN IF entry.data_offset = entry.content_size
       THEN [next |-> "read_next_packet",
             fs |-> [at EXCEPT !.pos.offset = entry.data_offset]]
       ELSE [next |-> "map", fs |-> [at EXCEPT !.pos.offset = 0]]

\* "Lookup context/packet size in index": what to do next, and the state
seek_position(fs) ==
    LET entry == fs.idx[fs.pos.cur_index + 1]
        at == [fs EXCEPT !.pos.mmap_offset = entry.offset,
                         !.stream.timestamp = entry.timestamp_begin,
                         !.pos.content_size = entry.content_size,
                         !.pos.packet_size = entry.packet_size]
    IN IF entry.data_offset < entry.content_size
       THEN [next |-> "map", fs |-> [at EXCEPT !.pos.offset = 0]]
       ELSE IF entry.data_offset = entry.content_size
            THEN [next |-> "read_next_packet",
                  fs |-> [at EXCEPT !.pos.offset = entry.data_offset]]
            ELSE [next |-> "return", fs |-> [at EXCEPT !.pos.offset = EOF]]

\* the read-mode body from the label read_next_packet on
RECURSIVE read_next_packet(_, _, _)
read_next_packet(fs, index, whence) ==
    IF whence = SEEK_CUR /\ fs.pos.offset = EOF
    THEN fs
    ELSE LET moved == IF whence = SEEK_CUR
                      THEN seek_cur_account(fs)
                      ELSE seek_set(fs, index)
         IN IF moved.fault # "none"
            THEN moved
            ELSE IF moved.pos.cur_index >= Len(moved.idx)
                 THEN seek_end_of_stream(moved)
                 ELSE LET p == seek_position(moved)
                      IN CASE p.next = "map" -> seek_map(p.fs)
                           [] p.next = "read_next_packet" ->
                                 read_next_packet(p.fs, index, SEEK_CUR)
                           [] p.next = "return" -> p.fs

\* ctf_packet_seek(stream_pos, index, whence) with pos->prot == PROT_READ
ctf_packet_seek(fs, index, whence) ==
    LET unmapped == seek_unmap(fs)
    IN IF unmapped.fault # "none"
       THEN unmapped
       ELSE read_next_packet(unmapped, index, whence)

---------------------------------------------------------------------------
(* create_stream_packet_index.  A packet header h as found in the file is   *)
(* the record [rw, magic, uuid, stream_id, content_size, packet_size,       *)
(* timestamp_begin, timestamp_end, events_discarded]; rw tells whether      *)
(* generic_rw decodes the trace packet header and the packet context        *)
(* ("ok"), or fails on the header ("hdr_fail") or the context ("ctx_fail"). *)
(* The result of one iteration is [ret, fs]: ret is "ok" or the kind of the *)
(* error returned (the source returns -EINVAL or generic_rw's code).        *)

CTF_MAGIC == 1

\* the file size in bits: filestats.st_size * CHAR_BIT
FileBits == file.size * CHAR_BIT

\* mutant: the packet size is not compared with the rest of the file
index_validate_nofit(fs, h, content_size, packet_size) ==
    IF content_size > packet_size
    THEN [ret |-> "BadPacketSize", fs |-> fs]
    ELSE LET entry == [offset |-> fs.pos.mmap_offset,
                       content_size |-> content_size,
                       packet_size |-> packet_size,
                       timestamp_begin |->
                           IF decl.packet_context /\ "timestamp_begin" \in decl.context_fields
                           THEN h.timestamp_begin ELSE 0,
                       timestamp_end |->
                           IF decl.packet_context /\ "timestamp_end" \in decl.context_fields
                           THEN h.timestamp_end ELSE 0,
                       events_discarded |->
                           IF decl.packet_context /\ "events_discarded" \in decl.context_fields
                           THEN h.events_discarded ELSE 0,
                       data_offset |-> fs.pos.offset]
         IN [ret |-> "ok",
             fs |-> [fs EXCEPT !.idx = Append(@, entry),
                               !.pos.mmap_offset = @ + (packet_size \div CHAR_BIT)]]

\* "Validate content size and packet size values", save data_offset,
\* append the entry and advance mmap_offset
index_validate(fs, h, content_size, packet_size) ==
    IF content_size > packet_size
    THEN [ret |-> "BadPacketSize", fs |-> fs]
    ELSE IF packet_size > (file.size - fs.pos.mmap_offset) * CHAR_BIT
    THEN [ret |-> "BadPacketSize", fs |-> fs]
    ELSE LET entry == [offset |-> fs.pos.mmap_offset,
                       content_size |-> content_size,
                       packet_size |-> packet_size,
                       timestamp_begin |->
                           IF decl.packet_context /\ "timestamp_begin" \in decl.context_fields
                           THEN h.timestamp_begin ELSE 0,
                       timestamp_end |->
                           IF decl.packet_context /\ "timestamp_end" \in decl.context_fields
                           THEN h.timestamp_end ELSE 0,
                       events_discarded |->
                           IF decl.packet_context /\ "events_discarded" \in decl.context_fields
                           THEN h.events_discarded ELSE 0,
                       data_offset |-> fs.pos.offset]
         IN [ret |-> "ok",
             fs |-> [fs EXCEPT !.idx = Append(@, entry),
                               !.pos.mmap_offset = @ + (packet_size \div CHAR_BIT)]]

\* content_size of the packet: the context's field, else the file size
context_content_size(h) ==
    IF decl.packet_context
    THEN IF "content_size" \in decl.context_fields
         THEN h.content_size ELSE FileBits
    ELSE FileBits

\* packet_size of the packet: the context's field, else
\* "content size if non-zero, else file size"
context_packet_size(h) ==
    IF decl.packet_context /\ "packet_size" \in decl.context_fields
    THEN h.packet_size
    ELSE IF context_content_size(h) # 0
         THEN context_content_size(h) ELSE FileBits

\* the stream packet context: decode it and take the sizes from it, or
\* default them to the file size
index_context(fs, h) ==
    IF decl.packet_context
    THEN IF fs.pos.base = MAP_FAILED
         THEN [ret |-> "fault", fs |-> [fs EXCEPT !.fault = "segv"]]
         ELSE IF h.rw = "ctx_fail"
         THEN [ret |-> "IOError", fs |-> fs]
         ELSE index_validate([fs EXCEPT !.pos.offset = @ + decl.context_bits],
                             h, context_content_size(h), context_packet_size(h))
    ELSE index_validate(fs, h, context_content_size(h), context_packet_size(h))

\* mutant: the stream id of a later packet is not compared with the one
\* recorded on the file stream
index_stream_id_nochange(fs, first_packet, h, stream_id) ==
    IF first_packet
    THEN LET fs1 == [fs EXCEPT !.stream.stream_id = stream_id]
         IN IF stream_id >= td.streams_len
            THEN [ret |-> "UnknownStream", fs |-> fs1]
            ELSE IF stream_id \notin td.streams
            THEN [ret |-> "UnknownStream", fs |-> fs1]
            ELSE index_context([fs1 EXCEPT !.stream.stream_class = TRUE], h)
    ELSE index_context(fs, h)

\* mutant: an empty slot of the streams table is taken as a stream class
index_stream_id_noslot(fs, first_packet, h, stream_id) ==
    IF ~first_packet /\ fs.stream.stream_id # stream_id
    THEN [ret |-> "StreamIDChange", fs |-> fs]
    ELSE IF first_packet
    THEN LET fs1 == [fs EXCEPT !.stream.stream_id = stream_id]
         IN IF stream_id >= td.streams_len
            THEN [ret |-> "UnknownStream", fs |-> fs1]
            ELSE index_context([fs1 EXCEPT !.stream.stream_class = TRUE], h)
    ELSE index_context(fs, h)

\* the stream id checks; on the first packet the stream class is resolved
\* and create_stream_definitions instantiates its declarations
index_stream_id(fs, first_packet, h, stream_id) ==
    IF ~first_packet /\ fs.stream.stream_id # stream_id
    THEN [ret |-> "StreamIDChange", fs |-> fs]
    ELSE IF first_packet
    THEN LET fs1 == [fs EXCEPT !.stream.stream_id = stream_id]
         IN IF stream_id >= td.streams_len
            THEN [ret |-> "UnknownStream", fs |-> fs1]
            ELSE IF stream_id \notin td.streams
            THEN [ret |-> "UnknownStream", fs |-> fs1]
            ELSE index_context([fs1 EXCEPT !.stream.stream_class = TRUE], h)
    ELSE index_context(fs, h)

\* mutant: the magic number is not checked
index_header_nomagic(fs, first_packet, h) ==
    IF decl.packet_header
    THEN IF fs.pos.base = MAP_FAILED
         THEN [ret |-> "fault", fs |-> [fs EXCEPT !.fault = "segv"]]
         ELSE IF h.rw = "hdr_fail"
         THEN [ret |-> "IOError", fs |-> fs]
         ELSE LET fs1 == [fs EXCEPT !.pos.offset = @ + decl.header_bits]
              IN IF FALSE
                 THEN [ret |-> "BadMagic", fs |-> fs1]
                 ELSE IF "uuid" \in decl.header_fields /\ h.uuid # td.uuid
                 THEN [ret |-> "UUIDMismatch", fs |-> fs1]
                 ELSE index_stream_id(fs1, first_packet, h,
                          IF "stream_id" \in decl.header_fields
                          THEN h.stream_id ELSE 0)
    ELSE index_stream_id(fs, first_packet, h, 0)

\* mutant: the uuid is not compared with the uuid of the trace
index_header_nouuid(fs, first_packet, h) ==
    IF decl.packet_header
    THEN IF fs.pos.base = MAP_FAILED
         THEN [ret |-> "fault", fs |-> [fs EXCEPT !.fault = "segv"]]
         ELSE IF h.rw = "hdr_fail"
         THEN [ret |-> "IOError", fs |-> fs]
         ELSE LET fs1 == [fs EXCEPT !.pos.offset = @ + decl.header_bits]
              IN IF "magic" \in decl.header_fields /\ h.magic # CTF_MAGIC
                 THEN [ret |-> "BadMagic", fs |-> fs1]
                 ELSE IF FALSE
                 THEN [ret |-> "UUIDMismatch", fs |-> fs1]
                 ELSE index_stream_id(fs1, first_packet, h,
                          IF "stream_id" \in decl.header_fields
                          THEN h.stream_id ELSE 0)
    ELSE index_stream_id(fs, first_packet, h, 0)

\* "read and check header, set stream id (and check)"
index_header(fs, first_packet, h) ==
    IF decl.packet_header
    THEN IF fs.pos.base = MAP_FAILED
         THEN [ret |-> "fault", fs |-> [fs EXCEPT !.fault = "segv"]]
         ELSE IF h.rw = "hdr_fail"
         THEN [ret |-> "IOError", fs |-> fs]
         ELSE LET fs1 == [fs EXCEPT !.pos.offset = @ + decl.header_bits]
              IN IF "magic" \in decl.header_fields /\ h.magic # CTF_MAGIC
                 THEN [ret |-> "BadMagic", fs |-> fs1]
                 ELSE IF "uuid" \in decl.header_fields /\ h.uuid # td.uuid
                 THEN [ret |-> "UUIDMismatch", fs |-> fs1]
                 ELSE index_stream_id(fs1, first_packet, h,
                          IF "stream_id" \in decl.header_fields
                          THEN h.stream_id ELSE 0)
    ELSE index_stream_id(fs, first_packet, h, 0)

\* mutant: the cursor keeps the packet_size it had before the header is mapped
index_packet_nosize(fs, first_packet, h) ==
    IF fs.pos.base # NULL
       /\ ~munmap_ok(fs.pos.base, fs.pos.packet_size \div CHAR_BIT)
    THEN [ret |-> "IOError", fs |-> fs]
    ELSE LET base == mmap(PAGE_SIZE, fs.pos.mmap_offset)
             fs1 == [fs EXCEPT
                        !.maps = Mapped(IF fs.pos.base # NULL THEN @ - 1 ELSE @, base),
                        !.pos.base = base,
                        !.pos.content_size = MAX_PACKET_HEADER_LEN,
                        !.pos.offset = 0]
         IN index_header(fs1, first_packet, h)

\* one iteration of the for loop: unmap the old base, map one page at
\* mmap_offset, then decode and check the packet found there
index_packet(fs, first_packet, h) ==
    IF fs.pos.base # NULL
       /\ ~munmap_ok(fs.pos.base, fs.pos.packet_size \div CHAR_BIT)
    THEN [ret |-> "IOError", fs |-> fs]
    ELSE LET base == mmap(PAGE_SIZE, fs.pos.mmap_offset)
             fs1 == [fs EXCEPT
                        !.maps = Mapped(IF fs.pos.base # NULL THEN @ - 1 ELSE @, base),
                        !.pos.base = base,
                        !.pos.content_size = MAX_PACKET_HEADER_LEN,
                        !.pos.packet_size = MAX_PACKET_HEADER_LEN,
                        !.pos.offset = 0]
         IN index_header(fs1, first_packet, h)

---------------------------------------------------------------------------
(* Specification SpecIndex: ctf_open_file_stream_read has opened a stream   *)
(* file and calls create_stream_packet_index on it.  The headers found in   *)
(* the file are arbitrary; each is chosen when the indexer first decodes    *)
(* it.                                                                      *)

\* cap on the number of packets indexed in one file
MaxPackets == 3

\* the file stream value made of the variables
FS == [pos |-> pos, idx |-> packet_index, stream |-> stream,
       warnings |-> warnings, maps |-> res.maps,
       collection |-> td.collection, fault |-> "none"]

\* the uuid of the trace and another one
UuidVals == {1, 2}

\* stream ids found in packet headers: declared, empty slot, out of range
StreamIdVals == {0, 1, 2}

\* sizes in bits found in packet contexts
SizeVals == {0, CHAR_BIT, MAX_PACKET_HEADER_LEN, 2 * MAX_PACKET_HEADER_LEN}

\* (timestamp_begin, timestamp_end, events_discarded) found in packet contexts
StampVals == {<<0, 0, 0>>, <<1, 2, 3>>}

HeadersIdx ==
    {[rw |-> r, magic |-> m, uuid |-> u, stream_id |-> i,
      content_size |-> c, packet_size |-> p,
      timestamp_begin |-> t[1], timestamp_end |-> t[2],
      events_discarded |-> t[3]] :
        r \in {"ok"}, m \in {CTF_MAGIC, 0}, u \in UuidVals,
        i \in StreamIdVals, c \in SizeVals, p \in SizeVals, t \in StampVals}
    \cup
    {[rw |-> r, magic |-> CTF_MAGIC, uuid |-> 1, stream_id |-> 0,
      content_size |-> MAX_PACKET_HEADER_LEN,
      packet_size |-> MAX_PACKET_HEADER_LEN,
      timestamp_begin |-> 0, timestamp_end |-> 0,
      events_discarded |-> 0] : r \in {"hdr_fail", "ctx_fail"}}

AllContextFields ==
    {"content_size", "packet_size", "timestamp_begin", "timestamp_end",
     "events_discarded"}

\* the declarations of the traces indexed: a full packet header and context,
\* none at all, a header alone, and contexts lacking one of the sizes
DeclsIdx ==
    {[decl0 EXCEPT !.packet_header = TRUE,
                   !.header_fields = {"magic", "uuid", "stream_id"},
                   !.header_bits = CHAR_BIT,
                   !.packet_context = TRUE,
                   !.context_fields = AllContextFields,
                   !.context_bits = CHAR_BIT],
     decl0,
     [decl0 EXCEPT !.packet_header = TRUE,
                   !.header_fields = {"magic"},
                   !.header_bits = CHAR_BIT],
     [decl0 EXCEPT !.packet_context = TRUE,
                   !.context_fields = AllContextFields \ {"packet_size"},
                   !.context_bits = CHAR_BIT],
     [decl0 EXCEPT !.packet_context = TRUE,
                   !.context_fields = AllContextFields \ {"content_size"},
                   !.context_bits = CHAR_BIT]}

\* st_size of the files: below one page, and one to three pages
FileSizesIdx == {PAGE_SIZE - 1, PAGE_SIZE, 2 * PAGE_SIZE, 3 * PAGE_SIZE}

\* the trace of the indexed files: uuid 1, stream class 0 declared, slot 1
\* of the streams table empty
tdIdx == [td0 EXCEPT !.uuid = 1, !.uuid_set = TRUE,
                     !.streams_len = 2, !.streams = {0}]

InitIndex ==
    /\ pc = "create_stream_packet_index"
    /\ decl \in DeclsIdx
    /\ td = tdIdx
    /\ pos = pos0
    /\ packet_index = <<>>
    /\ stream = stream0
    /\ warnings = <<>>
    /\ file \in {[file0 EXCEPT !.size = n] : n \in FileSizesIdx}
    /\ meta = meta0
    /\ res = [res0 EXCEPT !.fds = {Fd("stream", 1)}]
    /\ call = call0
    /\ clock = 0

\* fstat, and the test of the file size against one page
IndexBegin ==
    /\ pc = "create_stream_packet_index"
    /\ IF file.size < MAX_PACKET_HEADER_LEN \div CHAR_BIT
       THEN /\ pc' = "index_failed"
            /\ call' = [op |-> "create_stream_packet_index", ret |-> "EINVAL"]
       ELSE /\ pc' = "indexing"
            /\ call' = [op |-> "fstat"]
    /\ UNCHANGED <<decl, td, pos, packet_index, stream, warnings, file,
                   meta, res, clock>>

\* the state after one iteration of the indexing loop that decoded h
IndexPacketEffect(h) ==
    LET r == index_packet(FS, file.first_packet, h)
    IN /\ pos' = r.fs.pos
       /\ packet_index' = r.fs.idx
       /\ stream' = r.fs.stream
       /\ res' = [res EXCEPT !.maps = r.fs.maps]
       /\ file' = [file EXCEPT
                      !.first_packet =
                          IF r.ret \in {"ok", "IOError"} \/ r.fs.stream.stream_class
                          THEN FALSE ELSE @,
                      \* remembered only while the offset does not advance
                      !.at = IF r.ret = "ok" /\ r.fs.pos.mmap_offset = pos.mmap_offset
                             THEN pos.mmap_offset ELSE file0.at,
                      !.hdr = IF r.ret = "ok" /\ r.fs.pos.mmap_offset = pos.mmap_offset
                              THEN h ELSE file0.hdr]
       /\ pc' = IF r.fs.fault # "none" THEN "crashed"
                ELSE IF r.ret = "ok" THEN "indexing" ELSE "index_failed"
       /\ call' = [op |-> "index_packet", ret |-> r.ret,
                   offset |-> pos.mmap_offset,
                   content_size |-> context_content_size(h),
                   packet_size |-> context_packet_size(h),
                   appended |-> Len(r.fs.idx) - Len(packet_index),
                   magic |-> h.magic, uuid |-> h.uuid,
                   stream_id |-> h.stream_id]

\* a packet of the file has bytes for the fields its header and context
\* declare and for no other: h keeps a fixed value for a field that is not
\* declared
FoundInFile(h) ==
    h.rw = "ok" =>
       /\ ~(decl.packet_header /\ "magic" \in decl.header_fields) =>
             h.magic = CTF_MAGIC
       /\ ~(decl.packet_header /\ "uuid" \in decl.header_fields) =>
             h.uuid = 1
       /\ ~(decl.packet_header /\ "stream_id" \in decl.header_fields) =>
             h.stream_id = 0
       /\ ~(decl.packet_context /\ "content_size" \in decl.context_fields) =>
             h.content_size = 0
       /\ ~(decl.packet_context /\ "packet_size" \in decl.context_fields) =>
             h.packet_size = 0
       /\ ~(decl.packet_context /\ "timestamp_begin" \in decl.context_fields) =>
             h.timestamp_begin = 0

\* one iteration of the loop; a header decoded before at the same offset is
\* found again unchanged
IndexPacket ==
    /\ pc = "indexing"
    /\ pos.mmap_offset < file.size
    /\ Len(packet_index) < MaxPackets
    /\ \E h \in HeadersIdx :
          /\ FoundInFile(h)
          /\ file.at = pos.mmap_offset => h = file.hdr
          /\ IndexPacketEffect(h)
    /\ UNCHANGED <<decl, td, warnings, meta, clock>>

\* the loop is over: "Move pos back to beginning of file", return 0
IndexEnd ==
    /\ pc = "indexing"
    /\ pos.mmap_offset >= file.size
    /\ LET fs == ctf_packet_seek(FS, 0, SEEK_SET)
       IN /\ pos' = fs.pos
          /\ stream' = fs.stream
          /\ warnings' = fs.warnings
          /\ res' = [res EXCEPT !.maps = fs.maps]
          /\ pc' = IF fs.fault # "none" THEN "crashed" ELSE "indexed"
          /\ call' = [op |-> "create_stream_packet_index", ret |-> "ok"]
    /\ UNCHANGED <<decl, td, packet_index, file, meta, clock>>

NextIndex == IndexBegin \/ IndexPacket \/ IndexEnd

SpecIndex == InitIndex /\ [][NextIndex]_vars

---------------------------------------------------------------------------
(* Claims about create_stream_packet_index (checked under SpecIndex) *)

IndexErrors ==
    {"IOError", "BadMagic", "UUIDMismatch", "StreamIDChange", "UnknownStream",
     "BadPacketSize", "fault"}

\* the packet just examined breaks one of the two size bounds
SizeBoundBroken ==
    \/ call.content_size > call.packet_size
    \/ call.packet_size > (file.size - call.offset) * CHAR_BIT

\* C4: every entry of the packet index has content_size <= packet_size and
\* packet_size <= (file_size - offset) * 8; a packet that breaks either
\* bound makes the indexer return an error (BadPacketSize once the packet
\* got as far as the size checks) without appending an entry, and
\* BadPacketSize is returned for such packets only.
C4_IndexedSizes ==
    /\ \A k \in 1..Len(packet_index) :
          /\ packet_index[k].content_size <= packet_index[k].packet_size
          /\ packet_index[k].packet_size
                <= (file.size - packet_index[k].offset) * CHAR_BIT
    /\ (call.op = "index_packet" /\ SizeBoundBroken) =>
          /\ call.ret \in IndexErrors
          /\ call.appended = 0
          /\ pc \in {"index_failed", "crashed"}
    /\ (call.op = "index_packet" /\ call.ret = "BadPacketSize") =>
          SizeBoundBroken
    /\ (call.op = "index_packet" /\ call.ret = "ok") => call.appended = 1

\* C4 witness: after one packet was indexed, the next one declares a
\* packet_size larger than the rest of the file and is rejected.
C4_Witness ==
    /\ pc = "index_failed"
    /\ call.op = "index_packet"
    /\ call.ret = "BadPacketSize"
    /\ call.content_size <= call.packet_size
    /\ call.packet_size > (file.size - call.offset) * CHAR_BIT
    /\ Len(packet_index) = 1

\* C5 as stated: every indexed packet has 0 <= data_offset <= content_size.
C5_AsStated ==
    \A k \in 1..Len(packet_index) :
        /\ 0 <= packet_index[k].data_offset
        /\ packet_index[k].data_offset <= packet_index[k].content_size

---------------------------------------------------------------------------
(* ctf_read_event.  An event ev as found in the file is the record          *)
(* [id, id_enum, v_id, ts, payload_bits]: the values of the id fields and   *)
(* of the timestamp field of its header, and the size of its event context  *)
(* and fields.  The result is [ret, fs]: ret is "ok", "EOF", "EINVAL" (the  *)
(* event id is not valid), "EFAULT" (a decode failed) or "fault".           *)

\* generic_rw over a definition of the given size: the decode fails when it
\* would read past the content of the packet
generic_rw_ok(fs, bits) == fs.pos.offset + bits <= fs.pos.content_size

\* ctf_pos_get_event: at the end of the packet's content, go to the next packet
ctf_pos_get_event(fs) ==
    IF fs.pos.offset > fs.pos.content_size
    THEN [fs EXCEPT !.fault = "assert"]
    ELSE IF fs.pos.offset = fs.pos.content_size
         THEN ctf_packet_seek(fs, 0, SEEK_CUR)
         ELSE fs

\* mutant: an id at the top of the event header is not overridden by v.id
lookup_event_id_top(ev) ==
    IF decl.eh_id = "int" THEN ev.id
    ELSE IF decl.eh_id = "enum" THEN ev.id_enum
    ELSE IF decl.eh_v /\ decl.v_id THEN ev.v_id ELSE 0

\* "lookup event id"
lookup_event_id(ev) ==
    LET top == IF decl.eh_id = "int" THEN ev.id
               ELSE IF decl.eh_id = "enum" THEN ev.id_enum
               ELSE 0
    IN IF decl.eh_v /\ decl.v_id THEN ev.v_id ELSE top

\* mutant: a timestamp lower than the stream's is not taken
lookup_timestamp_monotonic(s, ev) ==
    IF decl.eh_ts = "top" \/ (decl.eh_ts = "v" /\ decl.eh_v)
    THEN LET u == ctf_update_timestamp(s, decl.ts_len, ev.ts)
         IN [(IF u.timestamp < s.timestamp THEN s ELSE u)
                EXCEPT !.has_timestamp = TRUE]
    ELSE [s EXCEPT !.has_timestamp = FALSE]

\* "lookup timestamp"
lookup_timestamp(s, ev) ==
    IF decl.eh_ts = "top" \/ (decl.eh_ts = "v" /\ decl.eh_v)
    THEN [ctf_update_timestamp(s, decl.ts_len, ev.ts) EXCEPT !.has_timestamp = TRUE]
    ELSE [s EXCEPT !.has_timestamp = FALSE]

\* mutant: an empty slot of the events table is taken as an event class
read_event_body_noslot(fs, ev, id) ==
    IF decl.sec_bits > 0 /\ ~generic_rw_ok(fs, decl.sec_bits)
    THEN [ret |-> "EFAULT", fs |-> fs]
    ELSE LET fs1 == [fs EXCEPT !.pos.offset = @ + decl.sec_bits]
         IN IF id >= decl.events_len
            THEN [ret |-> "EINVAL", fs |-> fs1]
            ELSE IF ~generic_rw_ok(fs1, ev.payload_bits)
            THEN [ret |-> "EFAULT", fs |-> fs1]
            ELSE [ret |-> "ok",
                  fs |-> [fs1 EXCEPT !.pos.offset = @ + ev.payload_bits]]

\* the event contexts and the payload, from "Read stream-declared event
\* context" on; id is the event id resolved from the header
read_event_body(fs, ev, id) ==
    IF decl.sec_bits > 0 /\ ~generic_rw_ok(fs, decl.sec_bits)
    THEN [ret |-> "EFAULT", fs |-> fs]
    ELSE LET fs1 == [fs EXCEPT !.pos.offset = @ + decl.sec_bits]
         IN IF id >= decl.events_len
            THEN [ret |-> "EINVAL", fs |-> fs1]
            ELSE IF id \notin decl.events
            THEN [ret |-> "EINVAL", fs |-> fs1]
            ELSE IF ~generic_rw_ok(fs1, ev.payload_bits)
            THEN [ret |-> "EFAULT", fs |-> fs1]
            ELSE [ret |-> "ok",
                  fs |-> [fs1 EXCEPT !.pos.offset = @ + ev.payload_bits]]

\* "Read event header"
read_event_header(fs, ev) ==
    IF decl.event_header
    THEN IF ~generic_rw_ok(fs, decl.eh_bits)
         THEN [ret |-> "EFAULT", fs |-> fs]
         ELSE LET id == lookup_event_id(ev)
                  fs1 == [fs EXCEPT
                             !.pos.offset = @ + decl.eh_bits,
                             !.stream = lookup_timestamp(
                                            [@ EXCEPT !.event_id = id], ev)]
              IN read_event_body(fs1, ev, id)
    ELSE read_event_body(fs, ev, 0)

\* mutant: the position is not saved as a restore point
ctf_read_event_norestore(fs, ev) ==
    IF fs.pos.offset = EOF
    THEN [ret |-> "EOF", fs |-> fs]
    ELSE LET got == ctf_pos_get_event(fs)
             fs1 == [got EXCEPT !.stream.consumed = FALSE]
         IN IF got.fault # "none"
            THEN [ret |-> "fault", fs |-> got]
            ELSE IF fs1.pos.offset = EOF
            THEN [ret |-> "EOF", fs |-> fs1]
            ELSE IF ~(fs1.pos.offset < fs1.pos.content_size)
            THEN [ret |-> "fault", fs |-> [fs1 EXCEPT !.fault = "assert"]]
            ELSE read_event_header(fs1, ev)

\* mutant: no EOF check after ctf_pos_get_event
ctf_read_event_noeof2(fs, ev) ==
    IF fs.pos.offset = EOF
    THEN [ret |-> "EOF", fs |-> fs]
    ELSE LET got == ctf_pos_get_event(fs)
             fs1 == [got EXCEPT !.pos.last_offset = got.pos.offset,
                                !.stream.consumed = FALSE]
         IN IF got.fault # "none"
            THEN [ret |-> "fault", fs |-> got]
            ELSE IF ~(fs1.pos.offset < fs1.pos.content_size)
            THEN [ret |-> "fault", fs |-> [fs1 EXCEPT !.fault = "assert"]]
            ELSE read_event_header(fs1, ev)

\* mutant: no EOF check before ctf_pos_get_event
ctf_read_event_noeof1(fs, ev) ==
    LET got == ctf_pos_get_event(fs)
        fs1 == [got EXCEPT !.pos.last_offset = got.pos.offset,
                           !.stream.consumed = FALSE]
    IN IF got.fault # "none"
       THEN [ret |-> "fault", fs |-> got]
       ELSE IF fs1.pos.offset = EOF
       THEN [ret |-> "EOF", fs |-> fs1]
       ELSE IF ~(fs1.pos.offset < fs1.pos.content_size)
       THEN [ret |-> "fault", fs |-> [fs1 EXCEPT !.fault = "assert"]]
       ELSE read_event_header(fs1, ev)

ctf_read_event(fs, ev) ==
    IF fs.pos.offset = EOF
    THEN [ret |-> "EOF", fs |-> fs]
    ELSE LET got == ctf_pos_get_event(fs)
             fs1 == [got EXCEPT !.pos.last_offset = got.pos.offset,
                                !.stream.consumed = FALSE]
         IN IF got.fault # "none"
            THEN [ret |-> "fault", fs |-> got]
            ELSE IF fs1.pos.offset = EOF
            THEN [ret |-> "EOF", fs |-> fs1]
            ELSE IF ~(fs1.pos.offset < fs1.pos.content_size)
            THEN [ret |-> "fault", fs |-> [fs1 EXCEPT !.fault = "assert"]]
            ELSE read_event_header(fs1, ev)

---------------------------------------------------------------------------
(* Specification SpecRead: a stream file was opened (indexed by             *)
(* create_stream_packet_index, cursor positioned by its final seek) and the *)
(* consumer reads events and seeks.  The events found in the packets are    *)
(* arbitrary; each is chosen when it is decoded.                            *)

\* the whole of create_stream_packet_index over a file whose packets carry
\* the headers hs, one after the other up to the end of the file
RECURSIVE index_file(_, _, _)
index_file(fs, first_packet, hs) ==
    IF fs.pos.mmap_offset >= file.size
    THEN IF hs = <<>>
         THEN [ret |-> "ok", fs |-> ctf_packet_seek(fs, 0, SEEK_SET)]
         ELSE [ret |-> "no such file", fs |-> fs]
    ELSE IF hs = <<>>
         THEN [ret |-> "no such file", fs |-> fs]
         ELSE LET r == index_packet(fs, first_packet, Head(hs))
              IN IF r.ret # "ok" \/ r.fs.fault # "none"
                 THEN r
                 ELSE index_file(r.fs, FALSE, Tail(hs))

\* st_size of a file made of the packets hs
RECURSIVE FileBytes(_)
FileBytes(hs) ==
    IF hs = <<>> THEN 0
    ELSE (Head(hs).packet_size \div CHAR_BIT) + FileBytes(Tail(hs))

\* the declarations of the traces read: packet header and context of one
\* byte each, an event header of 4 bits with an integer id and a 64-bit
\* timestamp, event class 0 declared and slot 1 of the events table empty
DeclsRead ==
    {[decl0 EXCEPT !.packet_header = TRUE,
                   !.header_fields = {"magic", "uuid", "stream_id"},
                   !.header_bits = CHAR_BIT,
                   !.packet_context = TRUE,
                   !.context_fields = AllContextFields,
                   !.context_bits = CHAR_BIT,
                   !.event_header = TRUE,
                   !.eh_bits = 4,
                   !.eh_id = "int",
                   !.eh_ts = "top",
                   !.ts_len = TS_BITS,
                   !.events_len = 2,
                   !.events = {0}]}

\* content_size and packet_size of the packets read: content smaller than
\* the headers, an empty packet, and a packet with room for events
ShapesRead ==
    {<<CHAR_BIT, MAX_PACKET_HEADER_LEN>>,
     <<2 * CHAR_BIT, MAX_PACKET_HEADER_LEN>>,
     <<4 * CHAR_BIT, 2 * MAX_PACKET_HEADER_LEN>>}

\* (timestamp_begin, timestamp_end, events_discarded) of the successive
\* packets of a file: a trace whose clock and discarded-event counter
\* advance, and one whose packets are out of order and whose counter wraps
StampsRead ==
    {<<<<1, 2, 0>>, <<4, 6, 3>>, <<7, 9, 3>>, <<10, 11, 5>>>>,
     <<<<4, 6, UINT32 - 1>>, <<1, 2, 1>>, <<7, 9, 2>>, <<2, 3, 2>>>>}

HeaderRead(c, t) ==
    [rw |-> "ok", magic |-> CTF_MAGIC, uuid |-> 1, stream_id |-> 0,
     content_size |-> c[1], packet_size |-> c[2],
     timestamp_begin |-> t[1], timestamp_end |-> t[2],
     events_discarded |-> t[3]]

FilesRead ==
    UNION {{[k \in 1..n |-> HeaderRead(cs[k], ts[k])] :
               cs \in [1..n -> ShapesRead], ts \in StampsRead} :
           n \in 1..MaxPackets}

\* the events found in the packets
EventsRead ==
    {[id |-> i, id_enum |-> 0, v_id |-> 0, ts |-> t, payload_bits |-> b] :
        i \in {0, 2}, t \in {0, 5}, b \in {12}}

InitRead ==
    /\ pc = "opened"
    /\ decl \in DeclsRead
    /\ td \in {[tdIdx EXCEPT !.collection = c] : c \in BOOLEAN}
    /\ warnings = <<>>
    /\ meta = meta0
    /\ call = call0
    /\ clock = 0
    /\ \E hs \in FilesRead :
          /\ file = [file0 EXCEPT !.size = FileBytes(hs), !.first_packet = FALSE]
          /\ file.size >= MAX_PACKET_HEADER_LEN \div CHAR_BIT
          /\ LET fs0 == [pos |-> pos0, idx |-> <<>>, stream |-> stream0,
                         warnings |-> <<>>, maps |-> 0, collection |-> FALSE,
                         fault |-> "none"]
                 r == index_file(fs0, TRUE, hs)
             IN /\ r.ret = "ok"
                /\ r.fs.fault = "none"
                /\ pos = r.fs.pos
                /\ packet_index = r.fs.idx
                /\ stream = r.fs.stream
                /\ res = [res0 EXCEPT !.fds = {Fd("stream", 1)},
                                      !.maps = r.fs.maps]

\* the number of warnings kept in the model
MaxWarnings == 1

\* the variables after an operation left the file stream as fs
FSResult(fs) ==
    /\ Len(fs.warnings) <= MaxWarnings
    /\ pos' = fs.pos
    /\ packet_index' = fs.idx
    /\ stream' = fs.stream
    /\ warnings' = fs.warnings
    /\ res' = [res EXCEPT !.maps = fs.maps]
    /\ pc' = IF fs.fault # "none" THEN "crashed" ELSE pc

\* the consumer calls pos->parent.event_cb
ReadEvent ==
    /\ pc = "opened"
    /\ \E ev \in EventsRead :
          /\ LET r == ctf_read_event(FS, ev)
             IN /\ FSResult(r.fs)
                /\ call' = [op |-> "ctf_read_event", ret |-> r.ret,
                            whence |-> "none", index |-> 0, f |-> ev.ts,
                            from |-> pos.cur_index,
                            at_eof |-> pos.offset = EOF]
    /\ UNCHANGED <<decl, td, file, meta, clock>>

\* the consumer calls pos->packet_seek(pos, index, whence)
PacketSeek ==
    /\ pc = "opened"
    /\ \E whence \in {SEEK_CUR, SEEK_SET} :
       \E index \in 0..Len(packet_index) :
          /\ whence = SEEK_CUR => index = 0
          /\ LET fs == ctf_packet_seek(FS, index, whence)
             IN /\ FSResult(fs)
                /\ call' = [op |-> "ctf_packet_seek", ret |-> "ok",
                            whence |-> whence, index |-> index, f |-> 0,
                            from |-> IF whence = SEEK_CUR
                                     THEN pos.cur_index ELSE 0,
                            at_eof |-> pos.offset = EOF]
    /\ UNCHANGED <<decl, td, file, meta, clock>>

NextRead == ReadEvent \/ PacketSeek

SpecRead == InitRead /\ [][NextRead]_vars

---------------------------------------------------------------------------
(* Claims on SpecRead *)

\* the step was a ctf_read_event that returned an event
ReadStep == call'.op = "ctf_read_event" /\ call'.ret = "ok"

\* the step was a ctf_packet_seek(SEEK_CUR) on a cursor that was not at EOF
SeekCurStep ==
    /\ call'.op = "ctf_packet_seek"
    /\ call'.whence = SEEK_CUR
    /\ ~call'.at_eof

\* the last operation was a ctf_packet_seek(SEEK_CUR) on a cursor not at EOF
SeekCurDone ==
    /\ call.op = "ctf_packet_seek"
    /\ call.whence = SEEK_CUR
    /\ ~call.at_eof
    /\ pc = "opened"

\* events_discarded of packet j (from 0) less that of the packet before it,
\* as a uint32_t
DiscardedDiff(j) ==
    LET prev == IF j > 0 THEN packet_index[j].events_discarded ELSE 0
    IN ((packet_index[j + 1].events_discarded % UINT32)
            + UINT32 - (prev % UINT32)) % UINT32

\* C2 as stated: the stream's timestamp never decreases over a read of an
\* event or a seek to the next packet.
C2_AsStated ==
    [][(ReadStep \/ SeekCurStep) => stream'.timestamp >= stream.timestamp]_vars

\* C2: after an event with a full-width timestamp field was read, the
\* stream's timestamp is the value of that field, and while the cursor is
\* on a packet after a seek the stream's timestamp is that packet's
\* timestamp_begin; neither is compared with the timestamp before.
C2_TimestampFollowsTrace ==
    /\ (call.op = "ctf_read_event" /\ call.ret = "ok"
            /\ decl.ts_len = TS_BITS) =>
          stream.timestamp = call.f
    /\ (call.op = "ctf_packet_seek" /\ pc = "opened"
            /\ pos.cur_index < Len(packet_index)) =>
          stream.timestamp = packet_index[pos.cur_index + 1].timestamp_begin

\* C2 witness: an event was read whose timestamp field is lower than the
\* timestamp_begin of its packet, and the stream's timestamp went back.
C2_Witness ==
    /\ call.op = "ctf_read_event"
    /\ call.ret = "ok"
    /\ pos.cur_index < Len(packet_index)
    /\ stream.timestamp = call.f
    /\ stream.timestamp < packet_index[pos.cur_index + 1].timestamp_begin

\* C6 as stated: when SEEK_CUR moves the cursor from packet i to packet
\* i + 1, events_discarded is index[i+1].events_discarded less
\* index[i].events_discarded.
C6_AsStated ==
    (SeekCurDone /\ pos.cur_index = call.from + 1
        /\ pos.cur_index < Len(packet_index)) =>
       stream.events_discarded =
           ((packet_index[call.from + 2].events_discarded % UINT32) + UINT32
               - (packet_index[call.from + 1].events_discarded % UINT32))
             % UINT32

\* C6: when SEEK_CUR moves the cursor from packet i to packet i + 1,
\* events_discarded is index[i].events_discarded less
\* index[i-1].events_discarded (less 0 for i = 0) as a uint32_t; in general,
\* after a SEEK_CUR it is that difference for the packet before the one the
\* cursor is on, and 0 when the end of the stream was reached.
C6_DiscardedOnLeaving ==
    /\ (SeekCurDone /\ pos.cur_index = call.from + 1
           /\ pos.cur_index < Len(packet_index)) =>
          stream.events_discarded = DiscardedDiff(call.from)
    /\ SeekCurDone =>
          stream.events_discarded =
              IF pos.cur_index >= Len(packet_index)
              THEN 0
              ELSE DiscardedDiff(pos.cur_index - 1)

\* C6 witness: SEEK_CUR moved the cursor from packet 0, which declares no
\* discarded event, to packet 1, which declares some, and reports none.
C6_Witness ==
    /\ SeekCurDone
    /\ call.from = 0
    /\ pos.cur_index = 1
    /\ Len(packet_index) > 1
    /\ packet_index[1].events_discarded = 0
    /\ packet_index[2].events_discarded = 3
    /\ stream.events_discarded = 0
    /\ pos.offset = packet_index[2].data_offset

\* the count pending when the seek of this step found cur_index at or past
\* the number of packets
PendingAtEnd ==
    IF call'.whence = SEEK_SET /\ call'.index >= Len(packet_index)
    THEN stream.events_discarded
    ELSE DiscardedDiff(Len(packet_index) - 1)

\* C7 as stated: a seek that drives cur_index to the number of packets or
\* past it, with a pending count that is not 0 and a collection attached,
\* emits exactly one warning carrying that count and the window
\* [prev_timestamp, prev_timestamp_end], sets the offset to EOF and resets
\* the pending count; no other seek emits a warning, a SEEK_CUR at EOF
\* included.
C7_AsStated ==
    [][call'.op = "ctf_packet_seek" =>
         IF /\ ~(call'.whence = SEEK_CUR /\ call'.at_eof)
            /\ pos'.cur_index >= Len(packet_index)
            /\ PendingAtEnd # 0
            /\ td.collection
         THEN /\ warnings' = Append(warnings,
                                    [events |-> PendingAtEnd,
                                     from |-> stream'.prev_timestamp,
                                     to |-> stream'.prev_timestamp_end])
              /\ pos'.offset = EOF
              /\ stream'.events_discarded = 0
         ELSE warnings' = warnings]_vars

---------------------------------------------------------------------------
(* The metadata reader.  A metadata packet p as found in the file is the    *)
(* record [compression_scheme, encryption_scheme, checksum_scheme, uuid,    *)
(* payload], its header fields as decoded in the byte order found by        *)
(* packet_metadata; payload is what follows the header: "none" (content_size*)
(* is the size of the header), "tsdl" (complete declarations), "frag" (text *)
(* that is not a description by itself) or "cut" (the file ends before the  *)
(* content_size bytes).                                                      *)

\* BYTE_ORDER of the host
BYTE_ORDER == "LITTLE_ENDIAN"

\* a uint32_t is scaled to two bytes of BYTE_VALS values each
BYTE_VALS == 8

\* sizeof(uint32_t), scaled
UINT32_BYTES == 2

\* the uint32_t that fread leaves in the memory of the (little-endian) host
\* for the bytes b of the file
fread_uint32(b) == b[1] + BYTE_VALS * b[2]

GUINT32_SWAP_LE_BE(v) == (v % BYTE_VALS) * BYTE_VALS + (v \div BYTE_VALS)

\* TSDL_MAGIC (0x75D11D57 in the source), scaled: its bytes differ
TSDL_MAGIC == 10

\* the bytes a producer of the given byte order writes for the uint32_t v
Written(order, v) ==
    IF order = "LITTLE_ENDIAN"
    THEN <<v % BYTE_VALS, v \div BYTE_VALS>>
    ELSE <<v \div BYTE_VALS, v % BYTE_VALS>>

\* packet_metadata: the magic number at the start of the file; fread of a
\* file shorter than a uint32_t returns 0 items
packet_metadata(t, f) ==
    IF Len(f.magic) # UINT32_BYTES
    THEN [ret |-> 0, td |-> t]
    ELSE IF fread_uint32(f.magic) = TSDL_MAGIC
    THEN [ret |-> 1, td |-> [t EXCEPT !.byte_order = BYTE_ORDER]]
    ELSE IF fread_uint32(f.magic) = GUINT32_SWAP_LE_BE(TSDL_MAGIC)
    THEN [ret |-> 1,
          td |-> [t EXCEPT !.byte_order =
                     IF BYTE_ORDER = "BIG_ENDIAN"
                     THEN "LITTLE_ENDIAN" ELSE "BIG_ENDIAN"]]
    ELSE [ret |-> 0, td |-> t]

\* ctf_open_trace_metadata_packet_read(td, in, out): in is the packets left
\* in the file, out the text written to the memory stream; ret is "ok",
\* "EINVAL" or "loop" (the copy loop never ends)
ctf_open_trace_metadata_packet_read(t, in, out) ==
    IF in = <<>>
    THEN [ret |-> "EINVAL", td |-> t, in |-> in, out |-> out]
    ELSE LET header == Head(in)
             adopted == IF ~t.uuid_set
                        THEN [t EXCEPT !.uuid = header.uuid, !.uuid_set = TRUE]
                        ELSE t
         IN IF header.compression_scheme # 0
            THEN [ret |-> "EINVAL", td |-> t, in |-> Tail(in), out |-> out]
            ELSE IF header.encryption_scheme # 0
            THEN [ret |-> "EINVAL", td |-> t, in |-> Tail(in), out |-> out]
            ELSE IF header.checksum_scheme # 0
            THEN [ret |-> "EINVAL", td |-> t, in |-> Tail(in), out |-> out]
            ELSE IF t.uuid_set /\ header.uuid # t.uuid
            THEN [ret |-> "EINVAL", td |-> t, in |-> Tail(in), out |-> out]
            ELSE IF header.payload = "cut"
            THEN [ret |-> "loop", td |-> adopted, in |-> <<>>,
                  out |-> Append(out, "frag")]
            ELSE [ret |-> "ok", td |-> adopted, in |-> Tail(in),
                  out |-> IF header.payload = "none" THEN out
                          ELSE Append(out, header.payload)]

\* the for (;;) of ctf_open_trace_metadata_stream_read: feof(in) is never
\* set after a packet was read, since the fseek over the padding clears it
RECURSIVE metadata_packets(_, _, _)
metadata_packets(t, in, out) ==
    LET r == ctf_open_trace_metadata_packet_read(t, in, out)
    IN IF r.ret = "ok" THEN metadata_packets(r.td, r.in, r.out) ELSE r

\* ctf_open_trace_metadata_stream_read: the value returned by the packet
\* reader ends the loop and is dropped; fmemopen of an empty buffer fails or
\* not with the C library (empty_ok)
ctf_open_trace_metadata_stream_read(t, in, empty_ok) ==
    LET r == metadata_packets(t, in, <<>>)
    IN IF r.ret = "loop"
       THEN [ret |-> "loop", td |-> r.td, text |-> r.out]
       ELSE IF r.out = <<>> /\ ~empty_ok
       THEN [ret |-> "errno", td |-> r.td, text |-> r.out]
       ELSE [ret |-> "ok", td |-> r.td, text |-> r.out]

\* the scanner, the semantic check and the metadata constructor accept a
\* text made of complete declarations
tsdl_valid(text) ==
    /\ text # <<>>
    /\ \A i \in 1..Len(text) : text[i] = "tsdl"

\* ctf_visitor_construct_metadata: the stream classes the text declares
ctf_visitor_construct_metadata(t) ==
    [t EXCEPT !.streams_len = 2, !.streams = {0}]

\* close(fd)
close(r, fd) ==
    IF fd \in r.fds
    THEN [r EXCEPT !.fds = @ \ {fd}]
    ELSE [r EXCEPT !.ebadf = @ \cup {fd}]

\* ctf_open_trace_metadata_read(td, packet_seek, metadata_fp) over the
\* metadata file f; lib is what the C library does where the standard
\* leaves it open: [empty_ok, null_ok].  The result is
\* [ret, td, res, handed, text]: ret is "ok", "EINVAL", "errno", "loop" or
\* "fault".  With a metadata_fp of the caller, fp is that stream and
\* metadata_stream->pos.fd is the 0 that g_new0 left there, the standard
\* input of the process; without, the reader opens the file and wraps its
\* descriptor in fp.
ctf_open_trace_metadata_read(t, r, f, lib) ==
    LET fd == IF f.metadata_fp THEN Fd("metadata_fp", 0) ELSE Fd("metadata", 0)
        pos_fd == IF f.metadata_fp THEN Fd("stdin", 0) ELSE fd
        opened == IF f.metadata_fp THEN r ELSE [r EXCEPT !.fds = @ \cup {fd}]
        pm == packet_metadata(t, f)
        sr == ctf_open_trace_metadata_stream_read(pm.td, f.packets,
                                                  lib.empty_ok)
        \* fclose(in) in the stream reader closed the descriptor
        in_closed == close(opened, fd)
        text == IF pm.ret # 0 THEN sr.text ELSE f.plain
        t1 == IF pm.ret # 0 THEN sr.td
              ELSE [pm.td EXCEPT !.byte_order = BYTE_ORDER]
        \* end: fclose(fp), free(buf); end_stream: close(pos.fd)
        ended == close(close(opened, fd), pos_fd)
    IN IF pm.ret # 0 /\ sr.ret = "loop"
       THEN [ret |-> "loop", td |-> sr.td, res |-> opened,
             handed |-> FALSE, text |-> <<>>]
       ELSE IF pm.ret # 0 /\ sr.ret # "ok"
       THEN \* end_packet_read: fclose(fp) with fp == NULL
            IF lib.null_ok
            THEN [ret |-> "errno", td |-> sr.td,
                  res |-> close(in_closed, pos_fd),
                  handed |-> FALSE, text |-> <<>>]
            ELSE [ret |-> "fault", td |-> sr.td, res |-> in_closed,
                  handed |-> FALSE, text |-> <<>>]
       ELSE IF tsdl_valid(text)
            THEN [ret |-> "ok", td |-> ctf_visitor_construct_metadata(t1),
                  res |-> ended, handed |-> TRUE, text |-> text]
            ELSE [ret |-> "EINVAL", td |-> t1, res |-> ended,
                  handed |-> TRUE, text |-> text]

---------------------------------------------------------------------------
(* Specification SpecMeta: ctf_open_trace_read has opened the trace         *)
(* directory and reads its metadata file.                                   *)

\* the number of packets of a metadata file
MaxMetaPackets == 2

\* at most one of the three schemes of a packet is set
SchemesMeta ==
    {<<0, 0, 0>>, <<1, 0, 0>>, <<0, 1, 0>>, <<0, 0, 1>>}

MetaPackets ==
    {[compression_scheme |-> c[1], encryption_scheme |-> c[2],
      checksum_scheme |-> c[3], uuid |-> u, payload |-> p] :
        c \in SchemesMeta, u \in {1, 2},
        p \in {"none", "tsdl", "frag", "cut"}}

\* packet-framed metadata files in either byte order, and text-only ones
MetaFiles ==
    {[meta0 EXCEPT !.magic = m, !.packets = ps] :
        m \in {Written(o, TSDL_MAGIC) : o \in {"LITTLE_ENDIAN", "BIG_ENDIAN"}},
        ps \in UNION {[1..n -> MetaPackets] : n \in 1..MaxMetaPackets}}
    \cup {[meta0 EXCEPT !.plain = t] : t \in {<<>>, <<"tsdl">>, <<"frag">>}}

\* what the process has open before the call besides the trace directory:
\* its standard input, and the stream of the caller when there is one
CallerFds(f) ==
    {Fd("stdin", 0)}
       \cup (IF f.metadata_fp THEN {Fd("metadata_fp", 0)} ELSE {})

\* what the C library does: fmemopen of an empty buffer succeeds or not,
\* fclose(NULL) returns or faults
LibC == [empty_ok : BOOLEAN, null_ok : BOOLEAN]

\* the directory handle and the directory descriptor of ctf_open_trace_read
DirFds == {Fd("dir", 0), Fd("dirfd", 0)}

InitMeta ==
    /\ pc = "ctf_open_trace_metadata_read"
    /\ decl = decl0
    /\ td = td0
    /\ pos = pos0
    /\ packet_index = <<>>
    /\ stream = stream0
    /\ warnings = <<>>
    /\ file = file0
    /\ \E f \in MetaFiles, given \in BOOLEAN :
          meta = [f EXCEPT !.metadata_fp = given]
    /\ res = [res0 EXCEPT !.fds = DirFds \cup CallerFds(meta)]
    /\ call = call0
    /\ clock = 0

\* ctf_open_trace_metadata_read, and what ctf_open_trace_read does with the
\* value it returns
MetadataRead ==
    /\ pc = "ctf_open_trace_metadata_read"
    /\ \E lib \in LibC :
          LET r == ctf_open_trace_metadata_read(td, res, meta, lib)
          IN /\ td' = r.td
             /\ meta' = [meta EXCEPT !.handed = r.handed, !.text = r.text]
             /\ res' = IF r.ret \in {"ok", "loop", "fault"}
                       THEN r.res
                       ELSE \* error_metadata: close(td->dirfd), closedir
                            close(close(r.res, Fd("dirfd", 0)), Fd("dir", 0))
             /\ pc' = CASE r.ret = "ok" -> "readdir"
                        [] r.ret = "loop" -> "looping"
                        [] r.ret = "fault" -> "crashed"
                        [] OTHER -> "open_failed"
             /\ call' = [op |-> "ctf_open_trace_metadata_read", ret |-> r.ret]
    /\ UNCHANGED <<decl, pos, packet_index, stream, warnings, file, clock>>

NextMeta == MetadataRead

SpecMeta == InitMeta /\ [][NextMeta]_vars

---------------------------------------------------------------------------
(* Claims on SpecMeta *)

\* the metadata file is packet-framed and was read
PacketFramedRead ==
    /\ call.op = "ctf_open_trace_metadata_read"
    /\ packet_metadata(td0, meta).ret = 1

UnsupportedFraming(p) ==
    \/ p.compression_scheme # 0
    \/ p.encryption_scheme # 0
    \/ p.checksum_scheme # 0

\* C8 as stated: when a packet of packet-framed metadata, the first or a
\* later one, has a compression, encryption or checksum scheme that is not
\* 0, the open fails and the text collected so far is not handed to the
\* parser as a valid description.
C8_AsStated ==
    (PacketFramedRead
        /\ \E k \in 1..Len(meta.packets) : UnsupportedFraming(meta.packets[k]))
    => /\ call.ret # "ok"
       /\ pc # "readdir"
       /\ ~(meta.handed /\ tsdl_valid(meta.text))

\* C9 as stated: the uuid of the first metadata packet is adopted as the
\* trace's uuid, and a later packet with another uuid makes the open fail.
C9_AsStated ==
    /\ (PacketFramedRead /\ call.ret = "ok") =>
          /\ td.uuid_set
          /\ td.uuid = meta.packets[1].uuid
    /\ (PacketFramedRead
           /\ \E k \in 2..Len(meta.packets) :
                 meta.packets[k].uuid # meta.packets[1].uuid)
       => /\ call.ret # "ok"
          /\ pc # "readdir"


\* C32 as stated: the open closes only descriptors it opened itself, and
\* each of them at most once: with a metadata_fp of the caller no descriptor
\* but the one behind metadata_fp is closed by the metadata reader, and a
\* descriptor the reader opened is not closed again after the stream that
\* wraps it was closed.
C32_AsStated ==
    call.op = "ctf_open_trace_metadata_read" =>
       /\ res.ebadf = {}
       /\ Fd("stdin", 0) \in res.fds

\* C32, what the reader does: every call that reaches the end of the
\* function closes the stream fp and then metadata_stream->pos.fd.  Without
\* a metadata_fp that is the descriptor fclose just closed, closed a second
\* time; with one it is descriptor 0, which the reader never opened.
C32_ClosesPosFd ==
    (call.op = "ctf_open_trace_metadata_read"
        /\ call.ret \in {"ok", "EINVAL", "errno"}) =>
       IF meta.metadata_fp
       THEN /\ Fd("stdin", 0) \notin res.fds
            /\ Fd("metadata_fp", 0) \notin res.fds
            /\ res.ebadf = {}
       ELSE /\ res.ebadf = {Fd("metadata", 0)}
            /\ Fd("metadata", 0) \notin res.fds
            /\ Fd("stdin", 0) \in res.fds

\* C32 witness: a valid text metadata read from the stream of the caller;
\* the open goes on, and descriptor 0 is closed.
C32_Witness ==
    /\ call.op = "ctf_open_trace_metadata_read"
    /\ call.ret = "ok"
    /\ meta.metadata_fp
    /\ pc = "readdir"
    /\ Fd("stdin", 0) \notin res.fds

---------------------------------------------------------------------------
(* Specification SpecOpen: ctf_open_trace on a trace directory, O_RDONLY    *)
(* with no metadata_fp, then ctf_close_trace.  A directory entry is the     *)
(* record [kind, size]: kind is "hidden" (a name that starts with a dot),   *)
(* "metadata", "stream" (a stream file of size bytes), "unreadable" (a file *)
(* openat fails on) or "error" (readdir_r fails).                           *)

\* the number of entries of a trace directory
MaxDirents == 2

\* the metadata of the traces opened: a magic field in the trace packet
\* header, with or without a stream_id field, content_size and packet_size
\* in the packet context
DeclsOpen ==
    {[decl0 EXCEPT !.packet_header = TRUE,
                   !.header_fields = hf,
                   !.header_bits = CHAR_BIT,
                   !.packet_context = TRUE,
                   !.context_fields = {"content_size", "packet_size"},
                   !.context_bits = CHAR_BIT] :
        hf \in {{"magic"}, {"magic", "stream_id"}}}

Dirents ==
    {[kind |-> k, size |-> 0] :
        k \in {"hidden", "metadata", "unreadable", "error"}}
    \cup {[kind |-> "stream", size |-> n] : n \in {PAGE_SIZE - 1, 2 * PAGE_SIZE}}

\* one packet of complete declarations, with or without a supported framing
MetaFilesOpen ==
    {[meta0 EXCEPT !.magic = Written(BYTE_ORDER, TSDL_MAGIC),
                   !.packets = <<[compression_scheme |-> c,
                                  encryption_scheme |-> 0,
                                  checksum_scheme |-> 0, uuid |-> 1,
                                  payload |-> "tsdl"]>>] : c \in {0, 1}}
    \cup {[meta0 EXCEPT !.plain = <<"tsdl">>]}

TracesOpen ==
    {[m EXCEPT !.dirents = ds] :
        m \in MetaFilesOpen,
        ds \in UNION {[1..n -> Dirents] : n \in 0..MaxDirents}}

InitOpen ==
    /\ pc = "ctf_open_trace"
    /\ decl \in DeclsOpen
    /\ td = td0
    /\ pos = pos0
    /\ packet_index = <<>>
    /\ stream = stream0
    /\ warnings = <<>>
    /\ file = file0
    /\ meta \in TracesOpen
    /\ res = res0
    /\ call = call0
    /\ clock = 0

\* ctf_open_trace_read: "Open trace directory"
OpenDir ==
    /\ pc = "ctf_open_trace"
    /\ \E ok \in BOOLEAN :
          IF ok
          THEN /\ res' = [res EXCEPT !.fds = @ \cup {Fd("dir", 0)}]
               /\ pc' = "open_dirfd"
               /\ call' = [op |-> "opendir", ret |-> "ok"]
          ELSE /\ res' = res
               /\ pc' = "open_failed"
               /\ call' = [op |-> "ctf_open_trace", ret |-> "NULL"]
    /\ UNCHANGED <<decl, td, pos, packet_index, stream, warnings, file, meta,
                   clock>>

\* td->dirfd = open(path, 0)
OpenDirfd ==
    /\ pc = "open_dirfd"
    /\ \E ok \in BOOLEAN :
          IF ok
          THEN /\ res' = [res EXCEPT !.fds = @ \cup {Fd("dirfd", 0)}]
               /\ pc' = "ctf_open_trace_metadata_read"
               /\ call' = [op |-> "open", ret |-> "ok"]
          ELSE \* error_dirfd: closedir(td->dir)
               /\ res' = close(res, Fd("dir", 0))
               /\ pc' = "open_failed"
               /\ call' = [op |-> "ctf_open_trace", ret |-> "NULL"]
    /\ UNCHANGED <<decl, td, pos, packet_index, stream, warnings, file, meta,
                   clock>>

\* readdir_error: free(dirent), close(td->dirfd), closedir(td->dir)
readdir_error(r) == close(close(r, Fd("dirfd", 0)), Fd("dir", 0))

\* one iteration of the readdir_r loop, up to the call of
\* create_stream_packet_index for a stream file
ReadDir ==
    /\ pc = "readdir"
    /\ IF meta.dirents = <<>>
       THEN /\ pc' = "opened"
            /\ call' = [op |-> "ctf_open_trace", ret |-> "td"]
            /\ UNCHANGED <<pos, packet_index, stream, file, meta, res>>
       ELSE LET d == Head(meta.dirents)
                fd == Fd("stream", Len(td.file_streams) + 1)
            IN /\ meta' = [meta EXCEPT !.dirents = Tail(@)]
               /\ CASE d.kind \in {"hidden", "metadata"} ->
                         /\ pc' = "readdir"
                         /\ call' = [op |-> "readdir_r", ret |-> "skip"]
                         /\ UNCHANGED <<pos, packet_index, stream, file, res>>
                    [] d.kind = "error" ->
                         /\ pc' = "open_failed"
                         /\ res' = readdir_error(res)
                         /\ call' = [op |-> "ctf_open_trace", ret |-> "NULL"]
                         /\ UNCHANGED <<pos, packet_index, stream, file>>
                    [] d.kind = "unreadable" ->
                         /\ pc' = "open_failed"
                         /\ res' = readdir_error(res)
                         /\ call' = [op |-> "ctf_open_trace", ret |-> "NULL"]
                         /\ UNCHANGED <<pos, packet_index, stream, file>>
                    [] d.kind = "stream" ->
                         \* openat, g_new0, ctf_init_pos,
                         \* create_trace_definitions
                         /\ pc' = "create_stream_packet_index"
                         /\ res' = [res EXCEPT !.fds = @ \cup {fd}]
                         /\ pos' = pos0
                         /\ packet_index' = <<>>
                         /\ stream' = stream0
                         /\ file' = [file0 EXCEPT !.size = d.size]
                         /\ call' = [op |-> "openat", ret |-> "ok"]
    /\ UNCHANGED <<decl, td, warnings, clock>>

\* ctf_fini_pos of a cursor with the given base and packet_size:
\* [fault, maps]
ctf_fini_pos(maps, base, packet_size) ==
    IF base = NULL
    THEN [fault |-> "none", maps |-> maps]
    ELSE IF munmap_ok(base, packet_size \div CHAR_BIT)
         THEN [fault |-> "none", maps |-> maps - 1]
         ELSE [fault |-> "assert", maps |-> maps]

\* create_stream_packet_index returned 0: "Add stream file to stream class"
FileStreamOpened ==
    /\ pc = "indexed"
    /\ td' = [td EXCEPT !.file_streams =
                 Append(@, [fd |-> Fd("stream", Len(@) + 1),
                            base |-> pos.base,
                            packet_size |-> pos.packet_size])]
    /\ pos' = pos0
    /\ packet_index' = <<>>
    /\ stream' = stream0
    /\ file' = file0
    /\ pc' = "readdir"
    /\ call' = [op |-> "ctf_open_file_stream_read", ret |-> "ok"]
    /\ UNCHANGED <<decl, warnings, meta, res, clock>>

\* create_stream_packet_index failed: error_index, error_def, and then
\* readdir_error in ctf_open_trace_read
FileStreamFailed ==
    /\ pc = "index_failed"
    /\ LET fd == Fd("stream", Len(td.file_streams) + 1)
           fini == ctf_fini_pos(res.maps, pos.base, pos.packet_size)
       IN IF fini.fault # "none"
          THEN /\ pc' = "crashed"
               /\ res' = res
          ELSE /\ pc' = "open_failed"
               /\ res' = readdir_error(
                             close([res EXCEPT !.maps = fini.maps], fd))
    /\ pos' = pos0
    /\ packet_index' = <<>>
    /\ stream' = stream0
    /\ file' = file0
    /\ call' = [op |-> "ctf_open_file_stream_read", ret |-> "error"]
    /\ UNCHANGED <<decl, td, warnings, meta, clock>>

\* ctf_close_file_stream on the file streams fss, one after the other
RECURSIVE close_file_streams(_, _)
close_file_streams(r, fss) ==
    IF fss = <<>>
    THEN [fault |-> "none", res |-> r]
    ELSE LET fini == ctf_fini_pos(r.maps, Head(fss).base,
                                  Head(fss).packet_size)
         IN IF fini.fault # "none"
            THEN [fault |-> fini.fault, res |-> r]
            ELSE close_file_streams(
                     close([r EXCEPT !.maps = fini.maps], Head(fss).fd),
                     Tail(fss))

\* ctf_close_trace
CloseTrace ==
    /\ pc = "opened"
    /\ LET closed == close_file_streams(res, td.file_streams)
       IN IF closed.fault # "none"
          THEN /\ pc' = "crashed"
               /\ res' = closed.res
          ELSE /\ pc' = "closed"
               \* closedir(td->dir); g_free(td)
               /\ res' = close(closed.res, Fd("dir", 0))
    /\ call' = [op |-> "ctf_close_trace", ret |-> "void"]
    /\ UNCHANGED <<decl, td, pos, packet_index, stream, warnings, file, meta,
                   clock>>

NextOpen ==
    \/ OpenDir
    \/ OpenDirfd
    \/ MetadataRead
    \/ ReadDir
    \/ IndexBegin
    \/ IndexPacket
    \/ IndexEnd
    \/ FileStreamOpened
    \/ FileStreamFailed
    \/ CloseTrace

SpecOpen == InitOpen /\ [][NextOpen]_vars

---------------------------------------------------------------------------
(* Claims on SpecOpen *)

\* C10 as stated: after a successful ctf_open_trace followed by
\* ctf_close_trace no memory mapping is live and none of the descriptors
\* and handles acquired by the open is open: the directory handle, the
\* directory descriptor, the metadata descriptor, the stream descriptors.
C10_AsStated ==
    pc = "closed" =>
       /\ res.maps = 0
       /\ res.fds = {}

\* C11 as stated: when ctf_open_trace fails at any step and returns NULL,
\* every descriptor and every memory mapping acquired during that open has
\* been released.
C11_AsStated ==
    pc = "open_failed" =>
       /\ res.fds = {}
       /\ res.maps = 0

---------------------------------------------------------------------------
(* More claims on SpecRead *)

\* C12 as stated: from the end of indexing on, the cursor of a file stream
\* has exactly one live memory mapping in every state, end of stream and
\* the skipping of empty packets included.
C12_AsStated ==
    pc = "opened" => res.maps = 1

\* C12: from the end of indexing on, the cursor of a file stream has at
\* most one live memory mapping: exactly one, held in base, while its
\* offset is not EOF, and none once its offset is EOF (the old mapping is
\* unmapped at the start of every seek and no new one is made when the seek
\* ends at EOF).
C12_AtMostOneMapping ==
    /\ res.maps \in {0, 1}
    /\ res.maps = 1 <=> pos.base # NULL
    /\ pos.base # MAP_FAILED
    /\ pos.offset # EOF => res.maps = 1
    /\ pos.offset = EOF => res.maps = 0

\* C12 witness: a seek took the cursor from a mapped packet to the end of
\* the stream, and no mapping is left.
C12_Witness ==
    /\ call.op = "ctf_packet_seek"
    /\ ~call.at_eof
    /\ pos.offset = EOF
    /\ pos.cur_index >= Len(packet_index)
    /\ pos.base = NULL
    /\ res.maps = 0

\* C19: end of stream is absorbing for forward reading.  From a state where
\* the cursor's offset is EOF, a ctf_read_event returns EOF and a read-mode
\* SEEK_CUR returns, both leaving the whole cursor (offset and cur_index
\* included), the whole stream (timestamp, prev_timestamp,
\* prev_timestamp_end and events_discarded included), the warnings and the
\* mappings as they were; the offset stops being EOF only over a SEEK_SET
\* to an index below the number of packets.
C19_EofAbsorbing ==
    [][pos.offset = EOF =>
          /\ call'.op = "ctf_read_event" =>
                /\ call'.ret = "EOF"
                /\ pos' = pos /\ stream' = stream
                /\ warnings' = warnings /\ res' = res /\ pc' = pc
          /\ (call'.op = "ctf_packet_seek" /\ call'.whence = SEEK_CUR) =>
                /\ pos' = pos /\ stream' = stream
                /\ warnings' = warnings /\ res' = res /\ pc' = pc
          /\ pos'.offset # EOF =>
                /\ call'.op = "ctf_packet_seek"
                /\ call'.whence = SEEK_SET
                /\ call'.index < Len(packet_index)]_vars

\* C19 witness: the cursor reached the end of the stream by a SEEK_CUR from
\* the last packet, and a ctf_read_event that found it there returned EOF.
C19_Witness ==
    /\ call.op = "ctf_read_event"
    /\ call.at_eof
    /\ call.ret = "EOF"
    /\ pos.offset = EOF
    /\ pos.cur_index = Len(packet_index)
    /\ pos.last_offset # EOF


\* C23: the packet index of an open file stream is not changed by
\* ctf_read_event or by a read-mode ctf_packet_seek: no entry is added,
\* removed or rewritten after the open.
C23_IndexImmutable == [][packet_index' = packet_index]_vars

\* C23 witness: a SEEK_SET to a later packet after the stream was read to
\* its end, with the two entries of the index in place.
C23_Witness ==
    /\ call.op = "ctf_packet_seek"
    /\ call.whence = SEEK_SET
    /\ call.at_eof
    /\ call.index = 1
    /\ Len(packet_index) >= 2
    /\ pos.cur_index >= 1
    /\ stream.events_discarded # 0

\* a read-mode seek returned with the cursor on a packet
SeekPositioned ==
    /\ call.op = "ctf_packet_seek"
    /\ pc = "opened"
    /\ pos.offset # EOF

\* packet k (from 0) of the index holds no event
EmptyPacket(k) == packet_index[k + 1].data_offset = packet_index[k + 1].content_size

\* C24: after a read-mode seek that returns positioned on packet k,
\* cur_index = k, the cursor's mmap_offset, content_size and packet_size
\* are those of index[k], the live mapping covers packet_size / 8 bytes at
\* that file offset, the stream timestamp is index[k].timestamp_begin and
\* the bit offset is index[k].data_offset.  k is the packet asked for by
\* SEEK_SET, or the next one after the packet left by SEEK_CUR, or the
\* first packet after it that is not empty.
C24_SeekPositions ==
    SeekPositioned =>
       /\ pos.cur_index < Len(packet_index)
       /\ LET entry == packet_index[pos.cur_index + 1]
              first == IF call.whence = SEEK_SET
                       THEN call.index ELSE call.from + 1
          IN /\ pos.cur_index >= first
             /\ \A k \in first..(pos.cur_index - 1) : EmptyPacket(k)
             /\ ~EmptyPacket(pos.cur_index)
             /\ pos.mmap_offset = entry.offset
             /\ pos.content_size = entry.content_size
             /\ pos.packet_size = entry.packet_size
             /\ pos.base = [map |-> "mapped", off |-> entry.offset,
                            len |-> entry.packet_size \div CHAR_BIT]
             /\ res.maps = 1
             /\ stream.timestamp = entry.timestamp_begin
             /\ pos.offset = entry.data_offset

\* C24 witness: a SEEK_SET to packet 1 of three returned on it, the mapping
\* moved from the end of the file back to the packet.
C24_Witness ==
    /\ SeekPositioned
    /\ call.whence = SEEK_SET
    /\ call.index = 1
    /\ call.at_eof
    /\ pos.cur_index = 1
    /\ Len(packet_index) = 3
    /\ pos.mmap_offset > 0
    /\ pos.base.off = pos.mmap_offset
---------------------------------------------------------------------------
(* More claims about create_stream_packet_index (checked under SpecIndex) *)

\* the stream id a packet carries: its header's stream_id field, 0 when the
\* trace packet header is absent or has no such field
CarriedStreamId ==
    IF decl.packet_header /\ "stream_id" \in decl.header_fields
    THEN call.stream_id ELSE 0

\* the iteration just done was not the one of the file's first packet
LaterPacket ==
    /\ call.op = "index_packet"
    /\ Len(packet_index) - call.appended >= 1

\* errors returned before the stream id is looked at
HeaderErrors == {"IOError", "BadMagic", "UUIDMismatch", "fault"}

\* C13: every packet appended to the index carries the stream id recorded
\* on the file stream, which does not change once the first packet was
\* indexed; a later packet carrying another stream id is never appended and,
\* unless its header already failed to decode or to pass the magic and uuid
\* checks, makes the indexer fail with StreamIDChange, which is returned
\* for such packets only.
C13_SameStreamId ==
    /\ [](/\ (call.op = "index_packet" /\ call.appended = 1) =>
                CarriedStreamId = stream.stream_id
          /\ (LaterPacket /\ CarriedStreamId # stream.stream_id) =>
                /\ call.appended = 0
                /\ pc \in {"index_failed", "crashed"}
                /\ call.ret \in HeaderErrors \cup {"StreamIDChange"}
          /\ (call.op = "index_packet" /\ call.ret = "StreamIDChange") =>
                /\ LaterPacket
                /\ CarriedStreamId # stream.stream_id)
    /\ [][Len(packet_index) >= 1 => stream'.stream_id = stream.stream_id]_vars

\* C13 witness: after a packet of stream 0 was indexed, a packet of stream 1
\* is refused with StreamIDChange.
C13_Witness ==
    /\ pc = "index_failed"
    /\ call.op = "index_packet"
    /\ call.ret = "StreamIDChange"
    /\ Len(packet_index) >= 1
    /\ stream.stream_id = 0
    /\ CarriedStreamId = 1

\* C14: when the trace packet header declares a uuid field, every packet
\* appended to the index carries the uuid of the trace; a packet carrying
\* another uuid is never appended and makes the indexer fail, with
\* UUIDMismatch unless its header already failed to decode or to pass the
\* magic check, and UUIDMismatch is returned for such packets only.
C14_UuidMatches ==
    /\ (call.op = "index_packet" /\ call.appended = 1
        /\ decl.packet_header /\ "uuid" \in decl.header_fields) =>
          call.uuid = td.uuid
    /\ (call.op = "index_packet" /\ call.uuid # td.uuid
        /\ decl.packet_header /\ "uuid" \in decl.header_fields) =>
          /\ call.appended = 0
          /\ pc \in {"index_failed", "crashed"}
          /\ call.ret \in {"IOError", "fault", "BadMagic", "UUIDMismatch"}
    /\ (call.op = "index_packet" /\ call.ret = "UUIDMismatch") =>
          /\ decl.packet_header /\ "uuid" \in decl.header_fields
          /\ call.uuid # td.uuid
          /\ call.magic = CTF_MAGIC

\* C14 witness: after one packet was indexed, a packet with a good magic
\* number and a uuid other than the trace's is refused with UUIDMismatch.
C14_Witness ==
    /\ pc = "index_failed"
    /\ call.op = "index_packet"
    /\ call.ret = "UUIDMismatch"
    /\ call.uuid # td.uuid
    /\ call.appended = 0
    /\ Len(packet_index) = 1

\* C15: when the trace packet header declares a magic field, every packet
\* appended to the index has the magic number CTF_MAGIC; a packet with
\* another magic number is never appended and makes the indexer fail, with
\* BadMagic unless its header failed to decode, and BadMagic is returned
\* for such packets only.
C15_MagicChecked ==
    /\ (call.op = "index_packet" /\ call.appended = 1
        /\ decl.packet_header /\ "magic" \in decl.header_fields) =>
          call.magic = CTF_MAGIC
    /\ (call.op = "index_packet" /\ call.magic # CTF_MAGIC
        /\ decl.packet_header /\ "magic" \in decl.header_fields) =>
          /\ call.appended = 0
          /\ pc \in {"index_failed", "crashed"}
          /\ call.ret \in {"IOError", "fault", "BadMagic"}
    /\ (call.op = "index_packet" /\ call.ret = "BadMagic") =>
          /\ decl.packet_header /\ "magic" \in decl.header_fields
          /\ call.magic # CTF_MAGIC
          /\ call.appended = 0

\* C15 witness: after two packets were indexed, a packet with another magic
\* number is refused with BadMagic and the index keeps its two entries.
C15_Witness ==
    /\ pc = "index_failed"
    /\ call.op = "index_packet"
    /\ call.ret = "BadMagic"
    /\ call.magic # CTF_MAGIC
    /\ Len(packet_index) = 2

---------------------------------------------------------------------------
(* More claims on SpecOpen *)

\* the stream id carried by the packet just examined has no stream class:
\* it is beyond the streams table or its slot is empty
NoStreamClass ==
    \/ CarriedStreamId >= td.streams_len
    \/ CarriedStreamId \notin td.streams

\* C16: the first packet of a stream file whose stream id is beyond the
\* streams table or names an empty slot makes the indexer fail, with
\* UnknownStream unless its header already failed to decode or to pass the
\* magic and uuid checks; UnknownStream is returned for such first packets
\* only, nothing is indexed and the file stream is not bound to a stream
\* class; a file stream is added to the file streams of a stream class only
\* after its indexing succeeded with a stream class bound, so never after
\* UnknownStream.
C16_UnknownStream ==
    /\ [](/\ (call.op = "index_packet" /\ ~LaterPacket /\ NoStreamClass) =>
                /\ call.ret \in HeaderErrors \cup {"UnknownStream"}
                /\ call.appended = 0
                /\ ~stream.stream_class
                /\ pc \in {"index_failed", "crashed"}
          /\ (call.op = "index_packet" /\ call.ret = "UnknownStream") =>
                /\ ~LaterPacket
                /\ NoStreamClass
                /\ packet_index = <<>>
                /\ ~stream.stream_class
                /\ pc = "index_failed")
    /\ [][/\ td'.file_streams # td.file_streams =>
                /\ pc = "indexed"
                /\ stream.stream_class
                /\ stream.stream_id \in td.streams
          /\ pc = "index_failed" =>
                /\ td'.file_streams = td.file_streams
                /\ pc' \in {"open_failed", "crashed"}]_vars

\* C16 witness: after a first stream file was added to its stream class, the
\* first packet of the next file names the empty slot 1 of the streams
\* table and is refused with UnknownStream.
C16_Witness ==
    /\ pc = "index_failed"
    /\ call.op = "index_packet"
    /\ call.ret = "UnknownStream"
    /\ CarriedStreamId = 1
    /\ CarriedStreamId < td.streams_len
    /\ ~stream.stream_class
    /\ Len(td.file_streams) = 1

---------------------------------------------------------------------------
(* Specification SpecEvent: a stream file of one or two packets is opened   *)
(* by ctf_open_file_stream_read and, when that succeeded, the consumer      *)
(* reads events and seeks.  The event headers declared vary: an id that is  *)
(* an integer, an enumeration or absent, with or without a variant v that   *)
(* has an id of its own.  Events are 8 bits long, so that a packet has room *)
(* for none, one or two of them.                                            *)

\* cap on the number of packets of the files read event by event
MaxEventPackets == 2

\* size in bits of the fields of the events read
PayloadBits == 4

DeclsEvent ==
    {[d EXCEPT !.eh_id = i, !.eh_v = v[1], !.v_id = v[2]] :
        d \in DeclsRead, i \in {"none", "int", "enum"},
        v \in {<<FALSE, FALSE>>, <<TRUE, FALSE>>, <<TRUE, TRUE>>}}

\* content_size and packet_size of the packets: a packet that is exactly its
\* headers and one event, and page-sized packets that are empty, hold one
\* event, or have room for two
ShapesEvent ==
    {<<3 * CHAR_BIT, 3 * CHAR_BIT>>,
     <<2 * CHAR_BIT, 2 * MAX_PACKET_HEADER_LEN>>,
     <<3 * CHAR_BIT, 2 * MAX_PACKET_HEADER_LEN>>,
     <<2 * MAX_PACKET_HEADER_LEN, 2 * MAX_PACKET_HEADER_LEN>>}

FilesEvent ==
    UNION {{[k \in 1..n |-> [HeaderRead(cs[k], <<1, 2, 0>>)
                                EXCEPT !.magic = ms[k]]] :
               cs \in [1..n -> ShapesEvent],
               ms \in [1..n -> {CTF_MAGIC, 0}]} :
           n \in 1..MaxEventPackets}

\* the events found in the packets: ids of the declared event class 0, of
\* the empty slot 1 of the events table, and beyond the table
EventsEvent ==
    {[id |-> i, id_enum |-> e, v_id |-> v, ts |-> 0,
      payload_bits |-> PayloadBits] :
        i \in {0, 1, 2}, e \in {0, 1, 2}, v \in {0, 1, 2}}

\* an event has bytes for the id fields its header declares and for no
\* other: ev keeps 0 for an id field that is not declared
EventFound(ev) ==
    /\ decl.eh_id # "int" => ev.id = 0
    /\ decl.eh_id # "enum" => ev.id_enum = 0
    /\ ~(decl.eh_v /\ decl.v_id) => ev.v_id = 0

\* ctf_open_file_stream_read over a file made of the packets hs
InitEvent ==
    /\ decl \in DeclsEvent
    /\ td = tdIdx
    /\ warnings = <<>>
    /\ meta = meta0
    /\ call = call0
    /\ clock = 0
    /\ \E hs \in FilesEvent :
          /\ file = [file0 EXCEPT !.size = FileBytes(hs),
                                  !.first_packet = FALSE,
                                  !.at = 0, !.hdr = hs[1]]
          /\ file.size >= MAX_PACKET_HEADER_LEN \div CHAR_BIT
          /\ LET fs0 == [pos |-> pos0, idx |-> <<>>, stream |-> stream0,
                         warnings |-> <<>>, maps |-> 0, collection |-> FALSE,
                         fault |-> "none"]
                 r == index_file(fs0, TRUE, hs)
                 fini == ctf_fini_pos(r.fs.maps, r.fs.pos.base,
                                      r.fs.pos.packet_size)
             IN /\ pos = r.fs.pos
                /\ packet_index = r.fs.idx
                /\ stream = r.fs.stream
                /\ IF r.fs.fault # "none"
                   THEN /\ pc = "crashed"
                        /\ res = [res0 EXCEPT !.fds = {Fd("stream", 1)},
                                              !.maps = r.fs.maps]
                   ELSE IF r.ret = "ok"
                   THEN /\ pc = "opened"
                        /\ res = [res0 EXCEPT !.fds = {Fd("stream", 1)},
                                              !.maps = r.fs.maps]
                   ELSE IF fini.fault # "none"
                   THEN /\ pc = "crashed"
                        /\ res = [res0 EXCEPT !.fds = {Fd("stream", 1)},
                                              !.maps = r.fs.maps]
                   ELSE \* error_index, error_def
                        /\ pc = "open_failed"
                        /\ res = [res0 EXCEPT !.maps = fini.maps]

\* the consumer calls pos->parent.event_cb; the id fields found in the
\* event header are remembered
EventRead ==
    /\ pc = "opened"
    /\ \E ev \in EventsEvent :
          /\ EventFound(ev)
          /\ LET r == ctf_read_event(FS, ev)
             IN /\ FSResult(r.fs)
                /\ call' = [op |-> "ctf_read_event", ret |-> r.ret,
                            whence |-> "none", index |-> 0, f |-> ev.ts,
                            from |-> pos.cur_index,
                            at_eof |-> pos.offset = EOF,
                            id |-> ev.id, id_enum |-> ev.id_enum,
                            v_id |-> ev.v_id]
    /\ UNCHANGED <<decl, td, file, meta, clock>>

NextEvent == EventRead \/ PacketSeek

SpecEvent == InitEvent /\ [][NextEvent]_vars

---------------------------------------------------------------------------
(* Claims on SpecEvent *)

\* the step was a ctf_packet_seek(SEEK_SET)
SeekSetStep == call'.op = "ctf_packet_seek" /\ call'.whence = SEEK_SET

\* C17: events come in file order.  Over every step that is not a SEEK_SET
\* and does not end in a crash: the packet index of the cursor does not
\* decrease; while it stays the same the bit offset of the cursor does not
\* decrease; an event returned starts (last_offset) at or after the offset
\* the cursor had if the packet is the same, and leaves the cursor beyond
\* its start; so the packet index of successive events is non-decreasing
\* and, of two events returned one after the other from the same packet,
\* the second starts at a higher bit offset.
C17_FileOrder ==
    [][(~SeekSetStep /\ pc' = "opened") =>
          /\ pos'.cur_index >= pos.cur_index
          /\ pos'.cur_index = pos.cur_index => pos'.offset >= pos.offset
          /\ ReadStep =>
                /\ pos'.cur_index = pos.cur_index =>
                      pos'.last_offset >= pos.offset
                /\ pos'.offset > pos'.last_offset
                /\ call'.from <= pos'.cur_index
          /\ (ReadStep /\ call.op = "ctf_read_event" /\ call.ret = "ok") =>
                \/ pos'.cur_index > pos.cur_index
                \/ /\ pos'.cur_index = pos.cur_index
                   /\ pos'.last_offset > pos.last_offset]_vars

\* C17 witness: in the second packet of a file, a second event was returned
\* right after a first one of the same packet.
C17_Witness ==
    /\ pc = "opened"
    /\ call.op = "ctf_read_event"
    /\ call.ret = "ok"
    /\ pos.cur_index = 1
    /\ call.from = 1
    /\ pos.last_offset > packet_index[2].data_offset

\* the file is one packet with a good magic number and content_size equal
\* to packet_size
SinglePacketFile ==
    /\ file.at = 0
    /\ file.hdr.magic = CTF_MAGIC
    /\ file.hdr.content_size = file.hdr.packet_size
    /\ file.hdr.packet_size = file.size * CHAR_BIT

\* size in bits of the packet header and context, and of one event
HeadersBits == decl.header_bits + decl.context_bits
EventBits == decl.eh_bits + decl.sec_bits + PayloadBits

HeaderDecoded ==
    /\ call.op = "ctf_read_event"
    /\ call.ret \in {"ok", "EINVAL"}

\* C20 as stated: the event id is the integer id at the top of the event
\* header; if there is none, the enumeration id at the top; if there is
\* neither, the id inside the variant v; else 0.
C20_AsStated ==
    HeaderDecoded =>
       stream.event_id =
          IF decl.eh_id = "int" THEN call.id
          ELSE IF decl.eh_id = "enum" THEN call.id_enum
          ELSE IF decl.eh_v /\ decl.v_id THEN call.v_id
          ELSE 0

\* C20: the event id is the integer id inside the variant v of the event
\* header when there is one, whatever id the top of the header has; if v
\* has no id, the integer id at the top; if there is none, the enumeration
\* id at the top; else 0.  The event is returned when this id names a
\* declared event class and refused with EINVAL when it does not.
C20_EventId ==
    HeaderDecoded =>
       /\ stream.event_id =
             IF decl.eh_v /\ decl.v_id THEN call.v_id
             ELSE IF decl.eh_id = "int" THEN call.id
             ELSE IF decl.eh_id = "enum" THEN call.id_enum
             ELSE 0
       /\ call.ret = "ok" <=> stream.event_id \in decl.events

\* C20 witness: the header has an integer id at its top and another one in
\* v; the event read carries 1 at the top and 0 in v, and is returned as an
\* event of class 0.
C20_Witness ==
    /\ decl.eh_id = "int"
    /\ decl.eh_v /\ decl.v_id
    /\ call.op = "ctf_read_event"
    /\ call.ret = "ok"
    /\ call.id = 1
    /\ call.v_id = 0
    /\ stream.event_id = 0

\* the resolved event id names no event class: it is beyond the events
\* table or its slot is empty
NoEventClass ==
    \/ stream.event_id >= decl.events_len
    \/ stream.event_id \notin decl.events

\* the last operation was a ctf_read_event that decoded an event header
\* and the stream event context, and so came to look up the event class
EventLookedUp ==
    /\ call.op = "ctf_read_event"
    /\ call.ret \in {"ok", "EINVAL", "EFAULT"}
    /\ pc = "opened"
    /\ pos.offset >= pos.last_offset + decl.eh_bits + decl.sec_bits

\* C21: a ctf_read_event that came to look up the event class returns
\* EINVAL exactly when the resolved event id is beyond the events table or
\* names an empty slot; then the cursor has moved over the event header and
\* the stream event context only, no event field being decoded; otherwise
\* the id names a declared event class, whose fields are decoded: the read
\* succeeds with the cursor moved over them, or fails with a decode error
\* when they do not fit in the content of the packet.
C21_InvalidEventId ==
    EventLookedUp =>
       /\ call.ret = "EINVAL" <=> NoEventClass
       /\ call.ret = "EINVAL" =>
             pos.offset = pos.last_offset + decl.eh_bits + decl.sec_bits
       /\ call.ret # "EINVAL" =>
             /\ stream.event_id < decl.events_len
             /\ stream.event_id \in decl.events
       /\ call.ret = "ok" => pos.offset = pos.last_offset + EventBits
       /\ call.ret = "EFAULT" =>
             pos.last_offset + EventBits > pos.content_size

\* C21 witness: the event header carries the id 1, which is inside the
\* events table but has no event class; the read returned EINVAL with the
\* cursor just after the event header.
C21_Witness ==
    /\ call.op = "ctf_read_event"
    /\ call.ret = "EINVAL"
    /\ stream.event_id = 1
    /\ stream.event_id < decl.events_len
    /\ pos.offset = pos.last_offset + decl.eh_bits

---------------------------------------------------------------------------
(* Specification SpecFrame: the metadata file is read byte by byte, the     *)
(* loops of ctf_open_trace_metadata_stream_read and                         *)
(* ctf_open_trace_metadata_packet_read taken one iteration at a time.  The  *)
(* file is [magic, packets]: its first bytes and, when it is packet-framed, *)
(* the packets that follow one another in it.  A packet is the record       *)
(* [magic, checksum, content_size, packet_size, compression_scheme,         *)
(* encryption_scheme, checksum_scheme, uuid, avail]: the bytes of the four  *)
(* uint32_t fields of its header as they are in the file, its one-byte and  *)
(* uuid fields, and avail, the number of bytes the file holds between this  *)
(* header and the next one (or the end of the file).  The reader keeps in   *)
(* meta its locals: header (the struct it decoded), toread, left (what is   *)
(* left of avail at the position of in) and out (the bytes written to the   *)
(* memory stream).  Every packet but the last is laid out as its header     *)
(* says; the last one declares any sizes and may be cut short.              *)

\* header_sizeof(header), in bytes (scaled)
HEADER_BYTES == 1

\* sizeof(buf) - 1, the largest chunk fread copies (4096 in the source)
BUF_BYTES == 2

\* width of size_t (scaled)
SIZE_BITS == 4

SIZE_T == Pow2(SIZE_BITS)

\* mutant: the header is taken as it is in the memory of the host
metadata_packet_header_noswap(t, raw) ==
    [magic |-> fread_uint32(raw.magic),
     checksum |-> fread_uint32(raw.checksum),
     content_size |-> fread_uint32(raw.content_size),
     packet_size |-> fread_uint32(raw.packet_size),
     compression_scheme |-> raw.compression_scheme,
     encryption_scheme |-> raw.encryption_scheme,
     checksum_scheme |-> raw.checksum_scheme,
     uuid |-> raw.uuid]

\* struct metadata_packet_header header after the fread and the byte swap
metadata_packet_header(t, raw) ==
    LET header == [magic |-> fread_uint32(raw.magic),
                   checksum |-> fread_uint32(raw.checksum),
                   content_size |-> fread_uint32(raw.content_size),
                   packet_size |-> fread_uint32(raw.packet_size),
                   compression_scheme |-> raw.compression_scheme,
                   encryption_scheme |-> raw.encryption_scheme,
                   checksum_scheme |-> raw.checksum_scheme,
                   uuid |-> raw.uuid]
    IN IF t.byte_order # BYTE_ORDER
       THEN [header EXCEPT !.magic = GUINT32_SWAP_LE_BE(@),
                           !.checksum = GUINT32_SWAP_LE_BE(@),
                           !.content_size = GUINT32_SWAP_LE_BE(@),
                           !.packet_size = GUINT32_SWAP_LE_BE(@)]
       ELSE header

\* the packet a producer of the given byte order writes
WrittenPacket(order, checksum, content_size, packet_size, scheme, avail) ==
    [magic |-> Written(order, TSDL_MAGIC),
     checksum |-> Written(order, checksum),
     content_size |-> Written(order, content_size),
     packet_size |-> Written(order, packet_size),
     compression_scheme |-> scheme,
     encryption_scheme |-> 0, checksum_scheme |-> 0,
     uuid |-> 1, avail |-> avail]

\* packets laid out as their header says: content_size is at least the
\* header and at most packet_size, and packet_size / 8 bytes are there
FramePacketsWhole(order) ==
    UNION {{WrittenPacket(order, 3, c * CHAR_BIT, p * CHAR_BIT, 0,
                          p - HEADER_BYTES) : p \in {c, 4}} : c \in 1..3}

\* the last packet of a file: any content_size (0 is less than the header),
\* any packet_size, a compression scheme or none, and a file that ends at
\* or before the end of the packet
FramePacketsLast(order) ==
    UNION {{WrittenPacket(order, k, c * CHAR_BIT, p * CHAR_BIT, z, a) :
               a \in 0..(IF p > HEADER_BYTES THEN p - HEADER_BYTES ELSE 0)} :
           k \in {0, 3}, c \in 0..3, p \in {0, 3, 4}, z \in {0, 1}}

\* the locals of the reader before it read anything
frame0 == [header |-> metadata_packet_header_noswap(td0,
                          WrittenPacket(BYTE_ORDER, 0, 0, 0, 0, 0)),
           toread |-> 0, left |-> 0, out |-> 0]

\* packet-framed files of either byte order, and files that do not start
\* with the magic number: empty, shorter than a uint32_t, or text
FrameFiles ==
    UNION {{[magic |-> Written(o, TSDL_MAGIC), packets |-> ps \o <<l>>,
             header |-> frame0.header, toread |-> 0, left |-> 0, out |-> 0] :
               ps \in UNION {[1..n -> FramePacketsWhole(o)] :
                                n \in 0..(MaxMetaPackets - 1)},
               l \in FramePacketsLast(o)} :
           o \in {"LITTLE_ENDIAN", "BIG_ENDIAN"}}
    \cup {[magic |-> w, packets |-> <<>>,
           header |-> frame0.header, toread |-> 0, left |-> 0, out |-> 0] :
             w \in {<<>>, <<2>>, <<5, 5>>}}

InitFrame ==
    /\ pc = "packet_metadata"
    /\ decl = decl0
    /\ td = td0
    /\ pos = pos0
    /\ packet_index = <<>>
    /\ stream = stream0
    /\ warnings = <<>>
    /\ file = file0
    /\ meta \in FrameFiles
    /\ res = [res0 EXCEPT !.fds = DirFds \cup {Fd("metadata", 0)}]
    /\ call = call0
    /\ clock = 0

\* if (packet_metadata(td, fp)) ... else { td->byte_order = BYTE_ORDER; ... }
PacketMetadata ==
    /\ pc = "packet_metadata"
    /\ LET pm == packet_metadata(td, meta)
       IN /\ td' = IF pm.ret # 0 THEN pm.td
                   ELSE [pm.td EXCEPT !.byte_order = BYTE_ORDER]
          /\ pc' = IF pm.ret # 0 THEN "packet_read" ELSE "text"
          /\ call' = [op |-> "packet_metadata", ret |-> pm.ret]
    /\ UNCHANGED <<decl, pos, packet_index, stream, warnings, file, meta, res,
                   clock>>

\* ctf_open_trace_metadata_packet_read up to the copy loop: the header is
\* read, swapped and checked, and toread is computed as a size_t
PacketRead ==
    /\ pc = "packet_read"
    /\ IF meta.packets = <<>>
       THEN \* readlen < 1: return -EINVAL, which ends the loop of the caller
            /\ pc' = "stream_read_done"
            /\ call' = [op |-> "packet_read", ret |-> "EINVAL"]
            /\ UNCHANGED <<td, meta>>
       ELSE LET header == metadata_packet_header(td, Head(meta.packets))
            IN IF \/ header.compression_scheme # 0
                  \/ header.encryption_scheme # 0
                  \/ header.checksum_scheme # 0
                  \/ (td.uuid_set /\ header.uuid # td.uuid)
               THEN /\ pc' = "stream_read_done"
                    /\ call' = [op |-> "packet_read", ret |-> "EINVAL"]
                    /\ meta' = [meta EXCEPT !.header = header]
                    /\ td' = td
               ELSE /\ pc' = "copy"
                    /\ call' = [op |-> "packet_read", ret |-> "header"]
                    /\ td' = [td EXCEPT !.uuid = header.uuid,
                                        !.uuid_set = TRUE]
                    /\ meta' = [meta EXCEPT
                          !.header = header,
                          !.left = Head(meta.packets).avail,
                          !.toread =
                              ((header.content_size \div CHAR_BIT)
                                  + SIZE_T - HEADER_BYTES) % SIZE_T]
    /\ UNCHANGED <<decl, pos, packet_index, stream, warnings, file, res,
                   clock>>

\* the smallest of three numbers
Min3(a, b, c) ==
    IF a <= b /\ a <= c THEN a ELSE IF b <= c THEN b ELSE c

\* one iteration of the for (;;) that copies the payload: fread returns
\* what the file still holds, at most min(sizeof(buf) - 1, toread) bytes
PayloadCopy ==
    /\ pc = "copy"
    /\ LET readlen == Min3(BUF_BYTES, meta.toread, meta.left)
       IN /\ meta' = [meta EXCEPT !.out = @ + readlen,
                                  !.left = @ - readlen,
                                  !.toread = @ - readlen]
          /\ pc' = IF meta.toread - readlen = 0 THEN "read_padding" ELSE "copy"
          /\ call' = [op |-> "fread", ret |-> readlen]
    /\ UNCHANGED <<decl, td, pos, packet_index, stream, warnings, file, res,
                   clock>>

\* read_padding: fseek over the padding, which also clears the end-of-file
\* indicator, so that the caller's feof(in) is false and it reads on
ReadPadding ==
    /\ pc = "read_padding"
    /\ meta' = [meta EXCEPT !.packets = Tail(@), !.left = 0]
    /\ pc' = "packet_read"
    /\ call' = [op |-> "fseek", ret |-> 0]
    /\ UNCHANGED <<decl, td, pos, packet_index, stream, warnings, file, res,
                   clock>>

NextFrame == PacketMetadata \/ PacketRead \/ PayloadCopy \/ ReadPadding

\* the reader is one thread that runs on: a step that can be taken is taken
SpecFrame == InitFrame /\ [][NextFrame]_vars /\ WF_vars(NextFrame)

---------------------------------------------------------------------------
(* Claims on SpecFrame *)

\* the file starts with the magic number in the given byte order
StartsWithMagic(order) == meta.magic = Written(order, TSDL_MAGIC)

\* the header of the packet at the head of the file was decoded
FrameHeaderRead == pc \in {"copy", "read_padding"}

\* C22: the first bytes of the metadata file decide framing and byte order.
\* TSDL_MAGIC in host order gives packet mode with the host byte order;
\* TSDL_MAGIC in the other order gives packet mode with the other byte
\* order; anything else, a file shorter than the magic number included,
\* gives text mode with the host byte order.  In packet mode the magic,
\* checksum, content_size and packet_size of a header decode to the values
\* that a producer of the trace's byte order wrote.
C22_FramingByteOrder ==
    pc # "packet_metadata" =>
       /\ StartsWithMagic("LITTLE_ENDIAN") =>
             /\ pc # "text"
             /\ td.byte_order = "LITTLE_ENDIAN"
       /\ StartsWithMagic("BIG_ENDIAN") =>
             /\ pc # "text"
             /\ td.byte_order = "BIG_ENDIAN"
       /\ (~StartsWithMagic("LITTLE_ENDIAN") /\ ~StartsWithMagic("BIG_ENDIAN")) =>
             /\ pc = "text"
             /\ td.byte_order = BYTE_ORDER
       /\ FrameHeaderRead =>
             /\ meta.header.magic = TSDL_MAGIC
             /\ Written(td.byte_order, meta.header.magic)
                   = Head(meta.packets).magic
             /\ Written(td.byte_order, meta.header.checksum)
                   = Head(meta.packets).checksum
             /\ Written(td.byte_order, meta.header.content_size)
                   = Head(meta.packets).content_size
             /\ Written(td.byte_order, meta.header.packet_size)
                   = Head(meta.packets).packet_size

\* C22 witness: a file written by a big-endian producer is read on the
\* little-endian host; the content_size of 16 bits, whose bytes in the file
\* are 2 and 0, was decoded as 16.
C22_Witness ==
    /\ pc = "copy"
    /\ StartsWithMagic("BIG_ENDIAN")
    /\ td.byte_order = "BIG_ENDIAN"
    /\ BYTE_ORDER = "LITTLE_ENDIAN"
    /\ Head(meta.packets).content_size = <<2, 0>>
    /\ meta.header.content_size = 2 * CHAR_BIT
    /\ meta.header.checksum = 3

\* the payload copy loop can read no more bytes and still has bytes to read
CopyStuck == pc = "copy" /\ meta.left = 0 /\ meta.toread # 0

\* C29 as stated: reading packet-framed metadata terminates on every input
\* file: the copy loop and the packet loop both finish, also when the file
\* ends before the payload implied by content_size and when content_size is
\* smaller than the header.
C29_AsStated == <>(pc \in {"text", "stream_read_done"})

\* C29, the part that holds: the copy loop is left only with toread = 0 or
\* it is never left, and whenever the file holds the bytes that content_size
\* announces the loop is not stuck.
C29_StuckOnlyWhenShort ==
    CopyStuck =>
       \/ meta.header.content_size \div CHAR_BIT < HEADER_BYTES
       \/ Head(meta.packets).avail
             < (meta.header.content_size \div CHAR_BIT) - HEADER_BYTES

\* C29 witness: the file ended before the payload did, fread returns 0 and
\* toread stays what it was.
C29_Witness ==
    /\ CopyStuck
    /\ call.op = "fread"
    /\ call.ret = 0
    /\ meta.header.content_size \div CHAR_BIT >= HEADER_BYTES

---------------------------------------------------------------------------
(* Claims on the seeks of SpecRead *)

\* the timestamps a SEEK_CUR that left packet j (from 0) stores; ts is the
\* stream timestamp when packet j was left
LeftPacket(j, ts) ==
    /\ stream'.prev_timestamp = ts
    /\ stream'.prev_timestamp_end = packet_index[j + 1].timestamp_end

\* C25 as stated: a SEEK_CUR issued on packet i leaves prev_timestamp at the
\* stream timestamp held before the call and prev_timestamp_end at
\* index[i].timestamp_end, whatever packets follow, skipped empty packets
\* included; a SEEK_SET leaves cur_index at the index asked for and both
\* prev_timestamp and prev_timestamp_end at 0.
C25_AsStated ==
    [][/\ (SeekCurStep /\ pc' = "opened") =>
             LeftPacket(pos.cur_index, stream.timestamp)
       /\ (SeekSetStep /\ pc' = "opened") =>
             /\ pos'.cur_index = call'.index
             /\ stream'.prev_timestamp = 0
             /\ stream'.prev_timestamp_end = 0]_vars

\* C25: the timestamps are those of the last packet left.  A SEEK_CUR on
\* packet i that skips no empty packet leaves prev_timestamp at the stream
\* timestamp held before the call and prev_timestamp_end at
\* index[i].timestamp_end.  Every empty packet skipped is left by a
\* SEEK_CUR of its own: after the skip of packets up to j, prev_timestamp
\* is index[j].timestamp_begin and prev_timestamp_end is
\* index[j].timestamp_end.  A SEEK_SET leaves cur_index at the index asked
\* for and both timestamps at 0 unless the packet asked for is empty; then
\* the cursor moves on and the timestamps are those of the last empty
\* packet skipped.
C25_LastPacketLeft ==
    [][/\ (SeekCurStep /\ pc' = "opened") =>
             /\ pos'.cur_index > pos.cur_index
             /\ \A k \in (pos.cur_index + 1)..(pos'.cur_index - 1) :
                   EmptyPacket(k)
             /\ IF pos'.cur_index = pos.cur_index + 1
                THEN LeftPacket(pos.cur_index, stream.timestamp)
                ELSE LeftPacket(pos'.cur_index - 1,
                        packet_index[pos'.cur_index].timestamp_begin)
       /\ (SeekSetStep /\ pc' = "opened") =>
             /\ pos'.cur_index >= call'.index
             /\ \A k \in call'.index..(pos'.cur_index - 1) : EmptyPacket(k)
             /\ IF pos'.cur_index = call'.index
                THEN /\ stream'.prev_timestamp = 0
                     /\ stream'.prev_timestamp_end = 0
                ELSE LeftPacket(pos'.cur_index - 1,
                        packet_index[pos'.cur_index].timestamp_begin)]_vars

\* C25 witness: a SEEK_SET to packet 1, which is empty, went on to packet 2
\* and left the timestamps of packet 1.
C25_Witness ==
    /\ call.op = "ctf_packet_seek"
    /\ call.whence = SEEK_SET
    /\ call.index = 1
    /\ pc = "opened"
    /\ pos.cur_index = 2
    /\ Len(packet_index) = 3
    /\ EmptyPacket(1)
    /\ stream.prev_timestamp = packet_index[2].timestamp_begin
    /\ stream.prev_timestamp_end = packet_index[2].timestamp_end
    /\ stream.prev_timestamp_end # 0

\* the first packet a seek looks at: the one asked for, or the one after
\* the packet left
SeekFirst == IF call.whence = SEEK_SET THEN call.index ELSE call.from + 1

\* C26: a read-mode seek never returns with the cursor on an empty packet
\* (data_offset = content_size): it goes on to the next packet until it
\* finds a packet that is not empty or the end of the index.  Every packet
\* it passed is empty and it passes each packet at most once, so the skip
\* ends within as many steps as the index has packets.
C26_SkipsEmptyPackets ==
    (call.op = "ctf_packet_seek" /\ pc = "opened") =>
       /\ pos.offset # EOF =>
             /\ pos.cur_index < Len(packet_index)
             /\ ~EmptyPacket(pos.cur_index)
       /\ (call.whence = SEEK_SET \/ ~call.at_eof) =>
             /\ pos.cur_index >= SeekFirst
             /\ pos.cur_index - SeekFirst <= Len(packet_index)
             /\ pos.cur_index <= Len(packet_index)
             /\ \A k \in SeekFirst..(pos.cur_index - 1) : EmptyPacket(k)
             /\ (pos.offset = EOF /\ pos.cur_index < Len(packet_index)) =>
                   packet_index[pos.cur_index + 1].data_offset
                      > packet_index[pos.cur_index + 1].content_size

\* C26 witness: a SEEK_CUR from packet 0 passed the empty packet 1 and
\* returned on packet 2.
C26_Witness ==
    /\ call.op = "ctf_packet_seek"
    /\ call.whence = SEEK_CUR
    /\ ~call.at_eof
    /\ call.from = 0
    /\ pc = "opened"
    /\ Len(packet_index) = 3
    /\ EmptyPacket(1)
    /\ pos.cur_index = 2
    /\ pos.offset = packet_index[3].data_offset

\* C27: whenever ctf_read_event goes past its two EOF checks, the bit
\* offset of the cursor, which was just saved as last_offset, is strictly
\* below content_size of the packet the cursor is on and at or after the
\* first event of that packet: the assertion does not fail and the call
\* does not end in a crash, whatever reads and seeks came before.
C27_AssertHolds ==
    (call.op = "ctf_read_event" /\ call.ret # "EOF") =>
       /\ pc = "opened"
       /\ call.ret \in {"ok", "EINVAL", "EFAULT"}
       /\ pos.last_offset # EOF
       /\ pos.cur_index < Len(packet_index)
       /\ pos.last_offset < pos.content_size
       /\ pos.content_size = packet_index[pos.cur_index + 1].content_size
       /\ pos.last_offset >= packet_index[pos.cur_index + 1].data_offset
       /\ pos.offset <= pos.content_size

\* C27 witness: the read that follows the last event of packet 0 went to
\* packet 1 through ctf_pos_get_event and passed the assertion at the first
\* event of that packet.
C27_Witness ==
    /\ call.op = "ctf_read_event"
    /\ call.ret = "ok"
    /\ call.from = 0
    /\ pos.cur_index = 1
    /\ pos.last_offset = packet_index[2].data_offset
    /\ pos.last_offset < pos.content_size

---------------------------------------------------------------------------
(* Claims on the loop of create_stream_packet_index (SpecIndex) *)

\* the step was an iteration of the indexing loop that did not fail
IndexedStep ==
    /\ call'.op = "index_packet"
    /\ call'.ret = "ok"
    /\ pc' = "indexing"

\* C28 as stated: every iteration of the indexing loop that does not fail
\* strictly increases mmap_offset, also for a packet whose packet_size is
\* smaller than 8 bits, so that the loop reaches the file size after
\* finitely many packets.
C28_AsStated == [][IndexedStep => pos'.mmap_offset > pos.mmap_offset]_vars

\* C28, the part that holds: an iteration that does not fail appends one
\* entry and moves mmap_offset by packet_size / 8 bytes, which is more than
\* nothing exactly when packet_size is 8 bits or more.
C28_AdvancesByPacketSize ==
    [][IndexedStep =>
          /\ Len(packet_index') = Len(packet_index) + 1
          /\ pos'.mmap_offset
                = pos.mmap_offset
                     + (packet_index'[Len(packet_index')].packet_size
                           \div CHAR_BIT)
          /\ pos'.mmap_offset <= file.size]_vars

\* C28 witness: the same packet, of packet_size 0, was indexed as many
\* times as the model lets the index grow, and the offset is where it was.
C28_Witness ==
    /\ pc = "indexing"
    /\ Len(packet_index) = MaxPackets
    /\ pos.mmap_offset = 0
    /\ \A k \in 1..MaxPackets :
          /\ packet_index[k].offset = 0
          /\ packet_index[k].packet_size = 0

---------------------------------------------------------------------------
(* Claims on the packet index accesses of ctf_packet_seek (SpecRead) *)

\* C30: every access of ctf_packet_seek to the packet index is below the
\* number of packets indexed, for every sequence of reads, SEEK_CUR and
\* SEEK_SET with any index, the packet count included: no call ends with an
\* access past the end of the index; whenever the offset of the cursor is
\* not EOF, cur_index is below the packet count; and a SEEK_SET with an
\* index at or past the packet count leaves the cursor at EOF with that
\* index, no mapping and no entry of the index read.
C30_IndexInBounds ==
    /\ pc = "opened"
    /\ Len(packet_index) > 0
    /\ pos.offset # EOF => pos.cur_index < Len(packet_index)
    /\ pos.cur_index <= Len(packet_index)
    /\ (/\ call.op = "ctf_packet_seek"
        /\ call.whence = SEEK_SET
        /\ call.index >= Len(packet_index)) =>
          /\ pos.offset = EOF
          /\ pos.cur_index = call.index
          /\ pos.base = NULL
          /\ res.maps = 0
          /\ stream.prev_timestamp = 0
          /\ stream.prev_timestamp_end = 0

\* C30 witness: a SEEK_SET with the packet count as its index, issued on a
\* cursor that was on a packet, left the cursor at EOF.
C30_Witness ==
    /\ call.op = "ctf_packet_seek"
    /\ call.whence = SEEK_SET
    /\ ~call.at_eof
    /\ call.index = Len(packet_index)
    /\ Len(packet_index) = 2
    /\ pos.offset = EOF
    /\ pos.cur_index = 2

---------------------------------------------------------------------------
(* Claims on the length of the mappings *)

\* base is a mapping of exactly packet_size / 8 bytes
MappedLength(base, packet_size) ==
    /\ base.map = "mapped"
    /\ base.len = packet_size \div CHAR_BIT

\* C31: while the process runs, whenever base of a cursor is not NULL it
\* is a live mapping and packet_size / 8 of that cursor is the length the
\* mapping was created with, for the cursor being indexed and for the
\* cursors of the file streams of the trace; so the munmap of the next
\* iteration of the indexing loop, of ctf_packet_seek and of ctf_fini_pos is
\* given the length that was mapped, also after the hand-over from the
\* one-page mapping of the indexer to the mapping of a packet and after
\* empty packets were skipped.
C31_MappedLength ==
    pc # "crashed" =>
       /\ pos.base # NULL => MappedLength(pos.base, pos.packet_size)
       /\ \A k \in 1..Len(td.file_streams) :
             td.file_streams[k].base # NULL =>
                MappedLength(td.file_streams[k].base,
                             td.file_streams[k].packet_size)

\* C31 witness: the seek that ends the indexing released the one-page
\* mapping of the indexer and mapped the first packet, which is two pages
\* long; the file stream of the trace holds that mapping.
C31_Witness ==
    /\ pc \in {"readdir", "opened"}
    /\ Len(td.file_streams) >= 1
    /\ td.file_streams[1].base.map = "mapped"
    /\ td.file_streams[1].base.len = 2 * PAGE_SIZE
    /\ td.file_streams[1].packet_size = 2 * MAX_PACKET_HEADER_LEN
    /\ res.maps >= 1

---------------------------------------------------------------------------
(* Specification SpecDiscard: a consumer goes through an opened file stream *)
(* from its first packet to the end, by reading events and by seeking to    *)
(* the next packet, and after each call takes what the stream holds in      *)
(* events_discarded and sets it back to 0.  call.collected is the sum of    *)
(* what it took so far; the consumer also takes what the open left there.   *)
(* The trace is attached to a collection, so that the count pending at the  *)
(* end of the stream is printed.                                            *)

\* the cumulative events_discarded counters found in the packet contexts
CountVals == {0, 1, 3, UINT32 - 1}

\* content_size and packet_size of the packets: an empty packet and a
\* packet with room for one event
ShapesDiscard ==
    {<<2 * CHAR_BIT, MAX_PACKET_HEADER_LEN>>,
     <<4 * CHAR_BIT, 2 * MAX_PACKET_HEADER_LEN>>}

\* files whose counters do not decrease from one packet to the next
FilesDiscard ==
    UNION {{[k \in 1..n |->
                HeaderRead(cs[k], <<2 * k - 1, 2 * k, ds[k]>>)] :
               cs \in [1..n -> ShapesDiscard],
               ds \in {d \in [1..n -> CountVals] :
                          \A k \in 1..(n - 1) : d[k] <= d[k + 1]}} :
           n \in 1..MaxPackets}

InitDiscard ==
    /\ pc = "opened"
    /\ decl \in DeclsRead
    /\ td = [tdIdx EXCEPT !.collection = TRUE]
    /\ warnings = <<>>
    /\ meta = meta0
    /\ clock = 0
    /\ \E hs \in FilesDiscard :
          /\ file = [file0 EXCEPT !.size = FileBytes(hs), !.first_packet = FALSE]
          /\ LET fs0 == [pos |-> pos0, idx |-> <<>>, stream |-> stream0,
                         warnings |-> <<>>, maps |-> 0, collection |-> FALSE,
                         fault |-> "none"]
                 r == index_file(fs0, TRUE, hs)
             IN /\ r.ret = "ok"
                /\ r.fs.fault = "none"
                /\ pos = r.fs.pos
                /\ packet_index = r.fs.idx
                /\ stream = [r.fs.stream EXCEPT !.events_discarded = 0]
                /\ call = [op |-> "open", ret |-> "ok", from |-> 0,
                           collected |-> r.fs.stream.events_discarded]
                /\ res = [res0 EXCEPT !.fds = {Fd("stream", 1)},
                                      !.maps = r.fs.maps]

\* the variables after a call left the file stream as fs and the consumer
\* took the count
Collected(op, ret, fs) ==
    /\ Len(fs.warnings) <= MaxWarnings
    /\ pos' = fs.pos
    /\ packet_index' = fs.idx
    /\ stream' = [fs.stream EXCEPT !.events_discarded = 0]
    /\ warnings' = fs.warnings
    /\ res' = [res EXCEPT !.maps = fs.maps]
    /\ pc' = IF fs.fault # "none" THEN "crashed" ELSE pc
    /\ call' = [op |-> op, ret |-> ret, from |-> pos.cur_index,
                collected |-> call.collected + fs.stream.events_discarded]

\* the consumer reads the next event
TraverseRead ==
    /\ pc = "opened"
    /\ pos.offset # EOF
    /\ LET r == ctf_read_event(FS, [id |-> 0, id_enum |-> 0, v_id |-> 0,
                                    ts |-> 0, payload_bits |-> 12])
       IN Collected("ctf_read_event", r.ret, r.fs)
    /\ UNCHANGED <<decl, td, file, meta, clock>>

\* the consumer goes to the next packet
TraverseSeek ==
    /\ pc = "opened"
    /\ pos.offset # EOF
    /\ Collected("ctf_packet_seek", "ok", ctf_packet_seek(FS, 0, SEEK_CUR))
    /\ UNCHANGED <<decl, td, file, meta, clock>>

NextDiscard == TraverseRead \/ TraverseSeek

SpecDiscard == InitDiscard /\ [][NextDiscard]_vars

---------------------------------------------------------------------------
(* Claims on SpecDiscard *)

\* the counts given to the warnings so far, each the uint32_t that fprintf
\* was handed, whatever sign "%d" printed it with
RECURSIVE Warned(_)
Warned(ws) ==
    IF ws = <<>> THEN 0
    ELSE ((Head(ws).events + UINT32) % UINT32) + Warned(Tail(ws))

\* the traversal reached the end of the stream by a call of the consumer
TraversalDone == pc = "opened" /\ pos.offset = EOF /\ call.op # "open"

\* the cumulative counter of the last packet
LastDiscarded == packet_index[Len(packet_index)].events_discarded

\* C33 as stated: over a full forward traversal of a file stream whose
\* cumulative events_discarded counters do not decrease and are below 2^32,
\* what the consumer collected after the calls plus the count reported in
\* the warning at the end of the stream is the cumulative counter of the
\* last packet, also when empty packets are skipped inside one seek.
C33_AsStated ==
    TraversalDone => call.collected + Warned(warnings) = LastDiscarded

\* C33, the part that holds: when no packet of the file is empty, nothing
\* is lost.
C33_NoEmptyPacket ==
    (/\ TraversalDone
     /\ \A k \in 0..(Len(packet_index) - 1) : ~EmptyPacket(k)) =>
       call.collected + Warned(warnings) = LastDiscarded

\* C33, what is lost: the count of a packet left is overwritten when the
\* packet after it is empty, so the total found is never more than the
\* counter of the last packet.
C33_NeverMore ==
    TraversalDone => call.collected + Warned(warnings) <= LastDiscarded

\* C33 witness: packet 0 declares 3 discarded events, packet 1 is empty and
\* declares no more, packet 2 declares none more either; the traversal
\* reached the end and found no discarded event at all.
C33_Witness ==
    /\ TraversalDone
    /\ Len(packet_index) = 3
    /\ packet_index[1].events_discarded = 3
    /\ LastDiscarded = 3
    /\ ~EmptyPacket(0)
    /\ EmptyPacket(1)
    /\ ~EmptyPacket(2)
    /\ call.collected = 0
    /\ warnings = <<>>

=============================================================================
